---- MODULE Spec2Model ----
(***************************************************************************)
(* Model of the connector-arrow dispatcher: order negotiation and prepare, *)
(* the per-partition worker loop, the PostgreSQL partition parsers and the *)
(* ArrowRowWriter.                                                         *)
(***************************************************************************)
EXTENDS Integers, Sequences, FiniteSets, TLC

(***************************************************************************)
(* Bounds                                                                  *)
(***************************************************************************)
MaxQueries == 2
MaxCols == 2
MaxRows == 3
MaxFetches == 3
MaxMinBatch == 2
DB_BUFFER_SIZE == 2

(***************************************************************************)
(* Helpers                                                                 *)
(***************************************************************************)
Range(s) == {s[i] : i \in 1..Len(s)}

Min(a, b) == IF a < b THEN a ELSE b

RECURSIVE SumSeq(_)
SumSeq(s) == IF s = <<>> THEN 0 ELSE Head(s) + SumSeq(Tail(s))

RECURSIVE Concat(_)
Concat(ss) == IF ss = <<>> THEN <<>> ELSE Head(ss) \o Concat(Tail(ss))

(***************************************************************************)
(* Data orders and negotiation                                             *)
(***************************************************************************)
DataOrder == {"RowMajor", "ColumnMajor"}

\* Preference lists a Source or Destination type may declare.
OrderLists ==
  {<<"RowMajor">>, <<"ColumnMajor">>,
   <<"RowMajor", "ColumnMajor">>, <<"ColumnMajor", "RowMajor">>}

\* PostgresSource::DATA_ORDERS
PostgresDataOrders == <<"RowMajor">>

\* coordinate(src, dst): first element of src that occurs in dst.
RECURSIVE coordinate(_, _)
coordinate(src, dst) ==
  IF src = <<>> THEN "UnsupportedDataOrder"
  ELSE IF \E j \in 1..Len(dst) : dst[j] = Head(src) THEN Head(src)
  ELSE coordinate(Tail(src), dst)

(***************************************************************************)
(* Type systems, Transport and schemas                                     *)
(***************************************************************************)
\* Transport::convert_tag: total on the tags that have a rule.
convert_tag(t) ==
  CASE t = "int4" -> "Int32"
    [] t = "text" -> "LargeUtf8"
    [] OTHER -> "NoConversionRule"

\* Schema::convert: map every tag by convert_tag, keep names and positions.
convert(s) ==
  IF \E i \in 1..Len(s.types) : convert_tag(s.types[i]) = "NoConversionRule"
  THEN [status |-> "NoConversionRule", schema |-> [names |-> <<>>, types |-> <<>>]]
  ELSE [status |-> "ok",
        schema |-> [names |-> s.names,
                    types |-> [i \in 1..Len(s.types) |-> convert_tag(s.types[i])]]]

\* The columns a database may report for a query.
Columns == {<<"a", "int4">>, <<"b", "text">>, <<"a", "hstore">>}

SchemaOf(cols) ==
  [names |-> [i \in 1..Len(cols) |-> cols[i][1]],
   types |-> [i \in 1..Len(cols) |-> cols[i][2]]]

DbSchemas ==
  {SchemaOf(cols) : cols \in UNION {[1..n -> Columns] : n \in 1..MaxCols}}

EmptySchema == [names |-> <<>>, types |-> <<>>]

AllQueries == <<"q1", "q2", "q3", "q4">>

(***************************************************************************)
(* State                                                                   *)
(***************************************************************************)
VARIABLES
  entry,          \* which Dispatcher method the caller invoked
  srcKind,        \* the Source implementation: its partition parser
  srcOrders,      \* S::DATA_ORDERS
  dstOrders,      \* D::DATA_ORDERS
  queries,        \* Dispatcher.queries
  dbSchema,       \* the columns the database reports for the queries
  min_batch_size, \* ArrowRowWriter.min_batch_size
  dpc,            \* position of the dispatcher inside prepare/run/get_meta
  data_order,     \* the negotiated order
  src,            \* the Source object
  dst,            \* the Destination object
  src_schema,
  dst_schema,
  src_partitions,
  dst_partitions,
  calls,          \* the Source/Destination methods invoked so far, in order
  result,         \* what the invoked Dispatcher method returned
  workers,        \* one closure invocation of try_for_each per zipped pair
  parsers,        \* the partition parsers, by position in src_partitions
  writers,        \* the ArrowRowWriters, by allocation order
  finished,       \* the closures that have returned, in the order they returned
  gpc,            \* position of get_arrow, the caller of Dispatcher::run
  arrow           \* what get_arrow returned to its caller

inputs == <<entry, srcKind, srcOrders, dstOrders, queries, dbSchema, min_batch_size>>
prepState == <<data_order, src, dst, src_schema, dst_schema, src_partitions,
               dst_partitions, calls>>
runState == <<workers, parsers, writers, finished>>
front == <<gpc, arrow>>
vars == <<inputs, front, dpc, result, prepState, runState>>

SrcKinds == {"buffered", "simple", "trait"}

\* what a Dispatcher method returned: a value, and the worker an error came from
Outcome(v, k) == [value |-> v, worker |-> k]

\* ArrowRowWriter::new
NewWriter(schema, mbs) ==
  [schema |-> schema,
   min_batch_size |-> mbs,
   data |-> <<>>,
   receiver |-> [col_count |-> Len(schema.names), row_count |-> 0,
                 next_row |-> 0, next_col |-> 0],
   builders |-> <<>>,
   has_builders |-> FALSE,
   rows_reserved |-> 0,
   rows_capacity |-> 0,
   consumed |-> <<>>,
   touched |-> {},
   dropped |-> FALSE]

\* a writer released when its closure returned early
DroppedWriter(w, k) ==
  [NewWriter(EmptySchema, w.min_batch_size) EXCEPT !.touched = w.touched \cup {k},
                                                   !.dropped = TRUE]

\* the schemas the workers are run on: all columns int4, or int4 then text
RunSchemas ==
  {SchemaOf([i \in 1..n |-> <<"a", "int4">>]) : n \in 1..MaxCols}
  \cup {SchemaOf([i \in 1..n |-> IF i = 1 THEN <<"a", "int4">> ELSE <<"b", "text">>])
          : n \in 2..MaxCols}

\* the (source, S::DATA_ORDERS, D::DATA_ORDERS) combinations run is started on
RunSources ==
  {<<"buffered", PostgresDataOrders, <<"ColumnMajor", "RowMajor">>>>,
   <<"simple", PostgresDataOrders, <<"ColumnMajor", "RowMajor">>>>,
   <<"buffered", PostgresDataOrders, <<"ColumnMajor">>>>,
   <<"trait", <<"RowMajor">>, <<"ColumnMajor", "RowMajor">>>>,
   <<"trait", <<"ColumnMajor", "RowMajor">>, <<"ColumnMajor", "RowMajor">>>>}

\* what get_arrow hands to its caller: a value, and the destination if any
NoDestination == [schema |-> EmptySchema, data_order |-> "none", allocated |-> 0,
                  data |-> <<>>]

Yielded(v, has, d) == [value |-> v, has_destination |-> has, destination |-> d]

\* Dispatcher::new, with a freshly constructed source and destination; run is
\* entered through get_arrow, which starts with ArrowDestination::new()
Init ==
  /\ entry \in {"prepare", "run", "get_meta"}
  /\ IF entry = "run"
     THEN /\ \E rs \in RunSources : /\ srcKind = rs[1]
                                    /\ srcOrders = rs[2]
                                    /\ dstOrders = rs[3]
          /\ dbSchema \in RunSchemas
     ELSE /\ srcKind \in SrcKinds
          /\ srcOrders \in (IF srcKind = "trait" THEN OrderLists
                            ELSE {PostgresDataOrders})
          /\ dstOrders \in OrderLists
          /\ dbSchema \in DbSchemas
  /\ queries \in {SubSeq(AllQueries, 1, n) : n \in 0..MaxQueries}
  /\ min_batch_size \in {1, MaxMinBatch}
  /\ dpc = "coordinate"
  /\ data_order = "none"
  /\ src = [data_order |-> "none", queries |-> <<>>, origin_query |-> "unset",
            schema |-> EmptySchema]
  /\ dst = [schema |-> EmptySchema, data_order |-> "none", allocated |-> 0,
            data |-> <<>>]
  /\ src_schema = EmptySchema
  /\ dst_schema = EmptySchema
  /\ src_partitions = <<>>
  /\ dst_partitions = <<>>
  /\ calls = <<>>
  /\ result = Outcome("pending", 0)
  /\ workers = <<>>
  /\ parsers = <<>>
  /\ writers = <<>>
  /\ finished = <<>>
  /\ gpc = (IF entry = "run" THEN "rewrite_tls_args" ELSE "none")
  /\ arrow = Yielded("pending", FALSE, NoDestination)

(***************************************************************************)
(* get_arrow: the steps before the dispatcher                              *)
(***************************************************************************)
\* get_arrow returns Err(e), or unwinds, before a dispatcher exists
Throw(e) == /\ arrow' = Yielded(e, FALSE, NoDestination)
            /\ gpc' = "returned"

\* match source_conn.ty, rewrite_tls_args(..)?, match (protocol, tls)
RewriteTlsArgs ==
  /\ gpc = "rewrite_tls_args"
  /\ \E r \in {"ok", "SourceNotSupport", "ConnectionUrlError", "panic"} :
       /\ (r = "ConnectionUrlError") => (srcKind # "trait")
       /\ IF r = "ok"
          THEN /\ gpc' = "new_source"
               /\ UNCHANGED arrow
          ELSE Throw(r)
  /\ UNCHANGED <<inputs, dpc, result, prepState, runState>>

\* PostgresSource::new(config, tls, queries.len())? and Dispatcher::new
NewSource ==
  /\ gpc = "new_source"
  /\ \E ok \in BOOLEAN :
       IF ok
       THEN /\ gpc' = "run"
            /\ UNCHANGED arrow
       ELSE Throw("SourceError")
  /\ UNCHANGED <<inputs, dpc, result, prepState, runState>>

\* the dispatcher's method is entered: directly, or by get_arrow's
\* dispatcher.run()
Entered == gpc \in {"none", "run"}

(***************************************************************************)
(* prepare / get_meta                                                      *)
(***************************************************************************)
Return_ok(r) == /\ result' = Outcome("Ok", 0)
                /\ dpc' = "returned"

Return(r) == /\ result' = Outcome(r, 0)
             /\ dpc' = "returned"

\* coordinate(S::DATA_ORDERS, D::DATA_ORDERS)
NegotiatedOrder_swapped(s, d) == coordinate(d, s)

NegotiatedOrder(s, d) == coordinate(s, d)

Coordinate_setfirst ==
  /\ dpc = "coordinate"
  /\ Entered
  /\ calls' = Append(calls, "set_queries")
  /\ LET o == NegotiatedOrder(srcOrders, dstOrders) IN
       IF o = "UnsupportedDataOrder"
       THEN /\ Return("UnsupportedDataOrder")
            /\ UNCHANGED data_order
       ELSE /\ data_order' = o
            /\ dpc' = "set_data_order"
            /\ UNCHANGED result
  /\ UNCHANGED <<inputs, front, src, dst, src_schema, dst_schema, src_partitions,
                 dst_partitions, runState>>

Coordinate ==
  /\ dpc = "coordinate"
  /\ Entered
  /\ LET o == NegotiatedOrder(srcOrders, dstOrders) IN
       IF o = "UnsupportedDataOrder"
       THEN /\ Return("UnsupportedDataOrder")
            /\ UNCHANGED data_order
       ELSE /\ data_order' = o
            /\ dpc' = "set_data_order"
            /\ UNCHANGED result
  /\ UNCHANGED <<inputs, front, src, dst, src_schema, dst_schema, src_partitions,
                 dst_partitions, calls, runState>>

SetDataOrder ==
  /\ dpc = "set_data_order"
  /\ calls' = Append(calls, "set_data_order")
  /\ \E ok \in BOOLEAN :
       IF ok
       THEN /\ src' = [src EXCEPT !.data_order = data_order]
            /\ dpc' = "set_queries"
            /\ UNCHANGED result
       ELSE /\ Return("SourceError")
            /\ UNCHANGED src
  /\ UNCHANGED <<inputs, front, data_order, dst, src_schema, dst_schema,
                 src_partitions, dst_partitions, runState>>

SetQueries ==
  /\ dpc = "set_queries"
  /\ calls' = Append(calls, "set_queries")
  /\ src' = [src EXCEPT !.queries = queries]
  /\ dpc' = "set_origin_query"
  /\ UNCHANGED <<inputs, front, result, data_order, dst, src_schema, dst_schema,
                 src_partitions, dst_partitions, runState>>

SetOriginQuery ==
  /\ dpc = "set_origin_query"
  /\ calls' = Append(calls, "set_origin_query")
  /\ src' = [src EXCEPT !.origin_query = "set"]
  /\ dpc' = "fetch_metadata"
  /\ UNCHANGED <<inputs, front, result, data_order, dst, src_schema, dst_schema,
                 src_partitions, dst_partitions, runState>>

FetchMetadata ==
  /\ dpc = "fetch_metadata"
  /\ calls' = Append(calls, "fetch_metadata")
  /\ \E ok \in BOOLEAN :
       IF ok
       THEN /\ src' = [src EXCEPT !.schema = dbSchema]
            /\ dpc' = "convert"
            /\ UNCHANGED result
       ELSE /\ Return("SourceError")
            /\ UNCHANGED src
  /\ UNCHANGED <<inputs, front, data_order, dst, src_schema, dst_schema,
                 src_partitions, dst_partitions, runState>>

\* the schema handed to Schema::convert and the one it yields
ConvertedSchema_truncated(s) ==
  [convert(s) EXCEPT !.schema = [names |-> SubSeq(@.names, 1, Min(1, Len(@.names))),
                                 types |-> SubSeq(@.types, 1, Min(1, Len(@.types)))]]

ConvertedSchema(s) == convert(s)

ConvertSchema ==
  /\ dpc = "convert"
  /\ calls' = Append(calls, "convert")
  /\ src_schema' = src.schema
  /\ LET d == ConvertedSchema(src.schema) IN
       IF d.status # "ok"
       THEN /\ Return(d.status)
            /\ UNCHANGED dst_schema
       ELSE /\ dst_schema' = d.schema
            /\ dpc' = (IF entry = "get_meta" THEN "set_metadata" ELSE "partition")
            /\ UNCHANGED result
  /\ UNCHANGED <<inputs, front, data_order, src, dst, src_partitions, dst_partitions,
                 runState>>

\* Source::partition: one partition per recorded query, in query order.
partition(s) == [i \in 1..Len(s.queries) |-> [query |-> s.queries[i], id |-> i]]

\* what prepare does with the partitions in hand: self.dst.set_metadata(..)
AfterPartition_skip == "allocate"

AfterPartition == "set_metadata"

Partition ==
  /\ dpc = "partition"
  /\ calls' = Append(calls, "partition")
  /\ \E ok \in BOOLEAN :
       IF ok
       THEN /\ src_partitions' = partition(src)
            /\ dpc' = AfterPartition
            /\ UNCHANGED result
       ELSE /\ Return("SourceError")
            /\ UNCHANGED src_partitions
  /\ UNCHANGED <<inputs, front, data_order, src, dst, src_schema, dst_schema,
                 dst_partitions, runState>>

\* get_meta returns Ok(()) right after set_metadata; prepare goes on
StopsAfterMetadata_never(e) == FALSE

StopsAfterMetadata(e) == e = "get_meta"

SetMetadata ==
  /\ dpc = "set_metadata"
  /\ calls' = Append(calls, "set_metadata")
  /\ \E ok \in BOOLEAN :
       IF ok
       THEN /\ dst' = [dst EXCEPT !.schema = dst_schema, !.data_order = data_order]
            /\ IF StopsAfterMetadata(entry)
               THEN Return("Ok")
               ELSE /\ dpc' = "allocate"
                    /\ UNCHANGED result
       ELSE /\ Return("DestinationError")
            /\ UNCHANGED dst
  /\ UNCHANGED <<inputs, front, data_order, src, src_schema, dst_schema,
                 src_partitions, dst_partitions, runState>>

\* the bound of the allocation loop: for _ in 0..self.queries.len()
AllocationCount_less == IF Len(queries) > 1 THEN Len(queries) - 1 ELSE Len(queries)

AllocationCount == Len(queries)

AllocatePartition ==
  /\ dpc = "allocate"
  /\ Len(dst_partitions) < AllocationCount
  /\ calls' = Append(calls, "allocate_partition")
  /\ \E ok \in BOOLEAN :
       IF ok
       THEN /\ dst' = [dst EXCEPT !.allocated = @ + 1]
            /\ writers' = Append(writers, NewWriter(dst.schema, min_batch_size))
            /\ dst_partitions' = Append(dst_partitions, dst.allocated + 1)
            /\ UNCHANGED <<dpc, result>>
       ELSE /\ Return("DestinationError")
            /\ UNCHANGED <<dst, writers, dst_partitions>>
  /\ UNCHANGED <<inputs, front, data_order, src, src_schema, dst_schema,
                 src_partitions, workers, parsers, finished>>

\* Ok(PreparedDispatch { .. })
PrepareReturn ==
  /\ dpc = "allocate"
  /\ Len(dst_partitions) >= AllocationCount
  /\ IF entry = "prepare"
     THEN Return("Ok")
     ELSE /\ dpc' = "start_writing"
          /\ UNCHANGED result
  /\ UNCHANGED <<inputs, front, prepState, runState>>

(***************************************************************************)
(* Partition parsers                                                       *)
(***************************************************************************)
\* PostgresBinarySourcePartitionParser::new, PostgresCSVStream::new,
\* PostgresRawStream::new, PostgresSimpleStream::new
NewParser(kind, query, schema, rows) ==
  [kind |-> kind,
   query |-> query,
   types |-> schema.types,
   ncols |-> Len(schema.names),
   rowbuf |-> <<>>,
   rows |-> rows,
   current_row |-> 0,
   current_col |-> 0,
   is_finished |-> FALSE,
   read |-> 0,
   fetches |-> 0,
   delivered |-> <<>>,
   produced |-> <<>>,
   touched |-> {}]

\* a partition whose parser is not open yet
NoParser == NewParser("none", "", EmptySchema, <<>>)

\* a parser released when its closure returned early
DroppedParser(p, k) ==
  [NewParser("dropped", p.query, EmptySchema, <<>>) EXCEPT !.touched = p.touched \cup {k}]

CommandComplete == 0

\* the Vec<SimpleQueryMessage> of a simple query: the rows, then CommandComplete
SimpleMessages(m) == [i \in 1..(m + 1) |-> IF i <= m THEN i ELSE CommandComplete]

Fetched(p, n, last) ==
  [status |-> "ok",
   parser |-> [p EXCEPT !.fetches = @ + 1, !.delivered = Append(@, n)],
   n |-> n, is_last |-> last]

FetchFailed(st, p) == [status |-> st, parser |-> p, n |-> 0, is_last |-> FALSE]

\* the rows the stream hands out next: positions read+1 .. read+m
NextRows(p, m) == [i \in 1..m |-> p.read + i]

\* fetch_batch of the binary, CSV and cursor parsers
fetch_batch_inclusive(p) ==
  IF p.current_col # 0 THEN {FetchFailed("panic", p)}
  ELSE IF p.is_finished THEN {Fetched(p, 0, TRUE)}
  ELSE IF Len(p.rowbuf) < p.current_row THEN {FetchFailed("panic", p)}
  ELSE IF Len(p.rowbuf) - p.current_row > 0
       THEN {Fetched(p, Len(p.rowbuf) - p.current_row, p.is_finished)}
  ELSE {Fetched([p EXCEPT !.rowbuf = NextRows(p, m),
                          !.read = @ + m,
                          !.is_finished = (m < DB_BUFFER_SIZE + 1),
                          !.current_row = 0,
                          !.current_col = 0],
                m, m < DB_BUFFER_SIZE + 1)
          : m \in 0..Min(DB_BUFFER_SIZE + 1, MaxRows - p.read)}
       \cup {FetchFailed("err", [p EXCEPT !.rowbuf = <<>>])}

fetch_batch_refill(p) ==
  IF p.current_col # 0 THEN {FetchFailed("panic", p)}
  ELSE IF p.is_finished THEN {Fetched(p, 0, TRUE)}
  ELSE {Fetched([p EXCEPT !.rowbuf = NextRows(p, m),
                          !.read = @ + m,
                          !.is_finished = (m < DB_BUFFER_SIZE),
                          !.current_row = 0,
                          !.current_col = 0],
                m, m < DB_BUFFER_SIZE)
          : m \in 0..Min(DB_BUFFER_SIZE, MaxRows - p.read)}
       \cup {FetchFailed("err", [p EXCEPT !.rowbuf = <<>>])}

fetch_batch_noreset(p) ==
  IF p.current_col # 0 THEN {FetchFailed("panic", p)}
  ELSE IF p.is_finished THEN {Fetched(p, 0, TRUE)}
  ELSE IF Len(p.rowbuf) < p.current_row THEN {FetchFailed("panic", p)}
  ELSE IF Len(p.rowbuf) - p.current_row > 0
       THEN {Fetched(p, Len(p.rowbuf) - p.current_row, p.is_finished)}
  ELSE {Fetched([p EXCEPT !.rowbuf = NextRows(p, m),
                          !.read = @ + m,
                          !.is_finished = (m < DB_BUFFER_SIZE)],
                m, m < DB_BUFFER_SIZE)
          : m \in 0..Min(DB_BUFFER_SIZE, MaxRows - p.read)}
       \cup {FetchFailed("err", [p EXCEPT !.rowbuf = <<>>])}

fetch_batch(p) ==
  IF p.current_col # 0 THEN {FetchFailed("panic", p)}
  ELSE IF p.is_finished THEN {Fetched(p, 0, TRUE)}
  ELSE IF Len(p.rowbuf) < p.current_row THEN {FetchFailed("panic", p)}
  ELSE IF Len(p.rowbuf) - p.current_row > 0
       THEN {Fetched(p, Len(p.rowbuf) - p.current_row, p.is_finished)}
  ELSE {Fetched([p EXCEPT !.rowbuf = NextRows(p, m),
                          !.read = @ + m,
                          !.is_finished = (m < DB_BUFFER_SIZE),
                          !.current_row = 0,
                          !.current_col = 0],
                m, m < DB_BUFFER_SIZE)
          : m \in 0..Min(DB_BUFFER_SIZE, MaxRows - p.read)}
       \cup {FetchFailed("err", [p EXCEPT !.rowbuf = <<>>])}

\* PostgresSimpleStream::fetch_batch
simple_fetch_batch_always(p) ==
  IF Len(p.rows) = 0 THEN {FetchFailed("panic", p)}
  ELSE {Fetched(p, Len(p.rows) - 1, TRUE)}

simple_fetch_batch_all(p) ==
  IF p.current_row = 0 /\ p.current_col = 0
  THEN {Fetched(p, Len(p.rows), TRUE)}
  ELSE {Fetched(p, 0, TRUE)}

simple_fetch_batch(p) ==
  IF p.current_row = 0 /\ p.current_col = 0
  THEN IF Len(p.rows) = 0 THEN {FetchFailed("panic", p)}
       ELSE {Fetched(p, Len(p.rows) - 1, TRUE)}
  ELSE {Fetched(p, 0, TRUE)}

\* PartitionParser::fetch_next of an arbitrary parser: any (n, is_last)
fetch_next(p) ==
  {Fetched([p EXCEPT !.rowbuf = NextRows(p, m),
                     !.read = @ + m,
                     !.is_finished = last,
                     !.current_row = 0,
                     !.current_col = 0],
           m, last)
     : <<m, last>> \in {x \in (0..Min(DB_BUFFER_SIZE, MaxRows - p.read)) \X BOOLEAN :
                          p.fetches + 1 >= MaxFetches => x[2]}}
  \cup {FetchFailed("err", p)}

FetchNextOf(p) ==
  CASE p.kind = "buffered" -> fetch_batch(p)
    [] p.kind = "simple" -> simple_fetch_batch(p)
    [] OTHER -> fetch_next(p)

\* next_loc: the cell under the cursor, and the cursor moved one cell on
next_loc_nowrap(p) ==
  [ridx |-> p.current_row,
   cidx |-> p.current_col,
   parser |-> [p EXCEPT !.current_row = @ + ((p.current_col + 1) \div p.ncols),
                        !.current_col = p.current_col + 1]]

next_loc(p) ==
  [ridx |-> p.current_row,
   cidx |-> p.current_col,
   parser |-> [p EXCEPT !.current_row = @ + ((p.current_col + 1) \div p.ncols),
                        !.current_col = (p.current_col + 1) % p.ncols]]

\* the rows a cell can be read from
BufferOf(p) == IF p.kind = "simple" THEN p.rows ELSE p.rowbuf

\* Produce<T>::produce for the value type of tag ty
produce_late(p, ty) ==
  LET loc == next_loc(p)
      buf == BufferOf(p) IN
  IF loc.ridx >= Len(buf) \/ buf[loc.ridx + 1] = CommandComplete
  THEN {[status |-> "panic", parser |-> p, cell |-> <<>>]}
  ELSE IF p.types[loc.cidx + 1] # ty
  THEN {[status |-> "err", parser |-> p, cell |-> <<>>]}
  ELSE LET cell == <<p.query, buf[loc.ridx + 1], loc.cidx>> IN
       {[status |-> "ok",
         parser |-> [loc.parser EXCEPT !.produced = Append(@, cell)],
         cell |-> cell],
        [status |-> "err", parser |-> p, cell |-> <<>>]}

produce(p, ty) ==
  LET loc == next_loc(p)
      buf == BufferOf(p) IN
  IF loc.ridx >= Len(buf) \/ buf[loc.ridx + 1] = CommandComplete
  THEN {[status |-> "panic", parser |-> loc.parser, cell |-> <<>>]}
  ELSE IF p.types[loc.cidx + 1] # ty
  THEN {[status |-> "err", parser |-> loc.parser, cell |-> <<>>]}
  ELSE LET cell == <<p.query, buf[loc.ridx + 1], loc.cidx>> IN
       {[status |-> "ok",
         parser |-> [loc.parser EXCEPT !.produced = Append(@, cell)],
         cell |-> cell],
        [status |-> "err", parser |-> loc.parser, cell |-> <<>>]}

(***************************************************************************)
(* ArrowRowWriter                                                          *)
(***************************************************************************)
\* Organizer::reset_for_batch
reset_for_batch(o, row_count) ==
  [o EXCEPT !.row_count = row_count, !.next_row = 0, !.next_col = 0]

\* Organizer::next_col_index
next_col_index_late(o) ==
  [col |-> o.next_col,
   receiver |-> IF o.next_col = o.col_count
                THEN [o EXCEPT !.next_col = 0, !.next_row = @ + 1]
                ELSE [o EXCEPT !.next_col = @ + 1]]

next_col_index(o) ==
  [col |-> o.next_col,
   receiver |-> IF o.next_col + 1 = o.col_count
                THEN [o EXCEPT !.next_col = 0, !.next_row = @ + 1]
                ELSE [o EXCEPT !.next_col = @ + 1]]

EmptyBuilders(schema) == [i \in 1..Len(schema.names) |-> <<>>]

SameLength(columns) ==
  \A i, j \in 1..Len(columns) : Len(columns[i]) = Len(columns[j])

\* ArrowRowWriter::flush
flush_prepend(w) ==
  IF ~w.has_builders THEN {[status |-> "ok", writer |-> w]}
  ELSE LET taken == [w EXCEPT !.has_builders = FALSE, !.builders = <<>>] IN
       IF SameLength(w.builders)
       THEN {[status |-> "ok",
              writer |-> [taken EXCEPT !.data = <<w.builders>> \o @]],
             [status |-> "err", writer |-> taken]}
       ELSE {[status |-> "err", writer |-> taken]}

flush(w) ==
  IF ~w.has_builders THEN {[status |-> "ok", writer |-> w]}
  ELSE LET taken == [w EXCEPT !.has_builders = FALSE, !.builders = <<>>] IN
       IF SameLength(w.builders)
       THEN {[status |-> "ok",
              writer |-> [taken EXCEPT !.data = Append(@, w.builders)]],
             [status |-> "err", writer |-> taken]}
       ELSE {[status |-> "err", writer |-> taken]}

\* the tail of allocate: new builders for the incoming batch
Reallocate_min(w, row_count) ==
  [w EXCEPT !.builders = EmptyBuilders(w.schema),
            !.has_builders = TRUE,
            !.rows_reserved = row_count,
            !.rows_capacity = w.min_batch_size]

Reallocate(w, row_count) ==
  LET to_allocate == IF row_count < w.min_batch_size
                     THEN w.min_batch_size ELSE row_count IN
  [w EXCEPT !.builders = EmptyBuilders(w.schema),
            !.has_builders = TRUE,
            !.rows_reserved = row_count,
            !.rows_capacity = to_allocate]

\* ArrowRowWriter::allocate
allocate_noflush(w, row_count) ==
  IF w.rows_capacity >= row_count + w.rows_reserved
  THEN {[status |-> "ok", writer |-> [w EXCEPT !.rows_reserved = @ + row_count]]}
  ELSE {[status |-> "ok", writer |-> Reallocate(w, row_count)]}

allocate_eager(w, row_count) ==
  IF w.rows_reserved > 0
  THEN {IF f.status = "ok"
        THEN [status |-> "ok", writer |-> Reallocate(f.writer, row_count)]
        ELSE f : f \in flush(w)}
  ELSE IF w.rows_capacity >= row_count + w.rows_reserved
  THEN {[status |-> "ok", writer |-> [w EXCEPT !.rows_reserved = @ + row_count]]}
  ELSE {[status |-> "ok", writer |-> Reallocate(w, row_count)]}

allocate_strict(w, row_count) ==
  IF w.rows_capacity > row_count + w.rows_reserved
  THEN {[status |-> "ok", writer |-> [w EXCEPT !.rows_reserved = @ + row_count]]}
  ELSE IF w.rows_reserved > 0
  THEN {IF f.status = "ok"
        THEN [status |-> "ok", writer |-> Reallocate(f.writer, row_count)]
        ELSE f : f \in flush(w)}
  ELSE {[status |-> "ok", writer |-> Reallocate(w, row_count)]}

allocate(w, row_count) ==
  IF w.rows_capacity >= row_count + w.rows_reserved
  THEN {[status |-> "ok", writer |-> [w EXCEPT !.rows_reserved = @ + row_count]]}
  ELSE IF w.rows_reserved > 0
  THEN {IF f.status = "ok"
        THEN [status |-> "ok", writer |-> Reallocate(f.writer, row_count)]
        ELSE f : f \in flush(w)}
  ELSE {[status |-> "ok", writer |-> Reallocate(w, row_count)]}

\* ArrowRowWriter::prepare_for_batch
prepare_for_batch(w, row_count) ==
  allocate([w EXCEPT !.receiver = reset_for_batch(@, row_count)], row_count)

\* ArrowRowWriter::finish
finish(w) == flush(w)

\* ConsumeTy<T>::consume through next_builder, for the builder type of tag ty
consume(w, cell, ty) ==
  LET nb == next_col_index(w.receiver)
      w1 == [w EXCEPT !.receiver = nb.receiver] IN
  IF ~w.has_builders \/ w.schema.types[nb.col + 1] # ty
  THEN [status |-> "panic", writer |-> w1]
  ELSE [status |-> "ok",
        writer |-> [w1 EXCEPT !.builders[nb.col + 1] = Append(@, cell),
                              !.consumed = Append(@, <<cell, nb.col>>)]]

(***************************************************************************)
(* run: the parallel workers                                               *)
(***************************************************************************)
\* dst_partitions.into_par_iter().zip_eq(src_partitions).enumerate()
ZipEq_reversed(dp, sp) == [i \in 1..Len(dp) |-> <<dp[i], sp[Len(sp) + 1 - i]>>]

ZipEq(dp, sp) == [i \in 1..Len(dp) |-> <<dp[i], sp[i]>>]

NewWorker_shared(pair) ==
  [pc |-> "queued", dst |-> 1, src |-> pair[2].id, query |-> pair[2].query,
   n |-> 0, is_last |-> FALSE, row |-> 0, col |-> 0, err |-> "none",
   late |-> FALSE]

NewWorker(pair) ==
  [pc |-> "queued", dst |-> pair[1], src |-> pair[2].id, query |-> pair[2].query,
   n |-> 0, is_last |-> FALSE, row |-> 0, col |-> 0, err |-> "none",
   late |-> FALSE]

StartWriting ==
  /\ dpc = "start_writing"
  /\ IF Len(dst_partitions) # Len(src_partitions)
     THEN /\ Return("panic")
          /\ UNCHANGED <<workers, parsers>>
     ELSE /\ workers' = [i \in 1..Len(dst_partitions) |->
                           NewWorker(ZipEq(dst_partitions, src_partitions)[i])]
          /\ parsers' = [i \in 1..Len(src_partitions) |-> NoParser]
          /\ dpc' = "running"
          /\ UNCHANGED result
  /\ UNCHANGED <<inputs, front, prepState, writers, finished>>

Terminal == {"done", "failed", "skipped", "panicked"}

\* the flag try_for_each raises once a closure has returned an error
Full == \E j \in 1..Len(workers) : workers[j].pc = "failed"

TouchP(p, k) == [p EXCEPT !.touched = @ \cup {k}]

TouchW(w, k) == [w EXCEPT !.touched = @ \cup {k}]

\* worker k has used parser p and writer w
Proceed(k, wk, p, w) ==
  /\ workers' = [workers EXCEPT ![k] = wk]
  /\ parsers' = [parsers EXCEPT ![workers[k].src] = TouchP(p, k)]
  /\ writers' = [writers EXCEPT ![workers[k].dst] = TouchW(w, k)]

\* worker k goes on with parser p and writer w
Continue(k, wk, p, w) ==
  /\ Proceed(k, wk, p, w)
  /\ UNCHANGED finished

\* the closure of worker k has returned
Returned(k, how) == Append(finished, [worker |-> k, how |-> how])

\* the closure of worker k returns Err(e) (or unwinds): its parser and its
\* writer are released with it
Leave(k, pc, e) ==
  /\ workers' = [workers EXCEPT ![k] =
       [@ EXCEPT !.pc = pc, !.err = e, !.n = 0, !.is_last = FALSE,
                 !.row = 0, !.col = 0, !.late = FALSE]]
  /\ parsers' = [parsers EXCEPT ![workers[k].src] = DroppedParser(@, k)]
  /\ writers' = [writers EXCEPT ![workers[k].dst] = DroppedWriter(@, k)]
  /\ finished' = Returned(k, pc)

\* the closure starts on its pair: src.parser(). try_for_each reads the flag
\* before it calls the closure, so a peer may have failed in between.
OpenParser(k) ==
  /\ dpc = "running"
  /\ workers[k].pc = "queued"
  /\ \E ok \in BOOLEAN, m \in 0..MaxRows :
       /\ (srcKind # "simple" \/ ~ok) => m = 0
       /\ IF ok
          THEN Continue(k, [workers[k] EXCEPT !.pc = "fetch"],
                        NewParser(srcKind, workers[k].query, src_schema,
                                  IF srcKind = "simple" THEN SimpleMessages(m)
                                  ELSE <<>>),
                        writers[workers[k].dst])
          ELSE Leave(k, "failed", "parser")
  /\ UNCHANGED <<inputs, front, dpc, result, prepState>>

\* where the flag is looked at: before a closure is called, never inside it
Stoppable_betweenbatches(pc) == pc \in {"queued", "fetch"}

Stoppable(pc) == pc = "queued"

\* a pair that try_for_each never starts because the flag is up
SkipWorker(k) ==
  /\ dpc = "running"
  /\ Stoppable(workers[k].pc)
  /\ Full
  /\ workers' = [workers EXCEPT ![k].pc = "skipped"]
  /\ UNCHANGED <<inputs, front, dpc, result, prepState, parsers, writers,
                 finished>>

\* let (n, is_last) = parser.fetch_next()?
FetchNext(k) ==
  /\ dpc = "running"
  /\ workers[k].pc = "fetch"
  /\ \E out \in FetchNextOf(parsers[workers[k].src]) :
       CASE out.status = "ok" ->
              Continue(k, [workers[k] EXCEPT
                             !.pc = "aquire", !.n = out.n, !.is_last = out.is_last,
                             !.late = @ \/ (Full /\ parsers[workers[k].src].fetches >= 1)],
                       out.parser, writers[workers[k].dst])
         [] out.status = "err" -> Leave(k, "failed", "fetch_next")
         [] OTHER -> Leave(k, "panicked", "fetch_next")
  /\ UNCHANGED <<inputs, front, dpc, result, prepState>>

\* for _ in 0..n
RowBound_short(n) == IF n > 0 THEN n - 1 ELSE 0

RowBound(n) == n

\* for col in 0..dst.ncols()
ColBound_short(w) == IF w.receiver.col_count > 1 THEN w.receiver.col_count - 1
                     ELSE w.receiver.col_count

ColBound(w) == w.receiver.col_count

\* where a worker goes once the cells of a batch are moved: if is_last { break }
AfterBatch_always(is_last) == "finalize"

AfterBatch_never(is_last) == "fetch"

AfterBatch(is_last) == IF is_last THEN "finalize" ELSE "fetch"

\* dst.aquire_row(n)?
AquireRow(k) ==
  /\ dpc = "running"
  /\ workers[k].pc = "aquire"
  /\ \E out \in prepare_for_batch(writers[workers[k].dst], workers[k].n) :
       IF out.status # "ok" THEN Leave(k, "failed", "aquire_row")
       ELSE Continue(k,
              IF RowBound(workers[k].n) = 0 \/ ColBound(out.writer) = 0
              THEN [workers[k] EXCEPT !.pc = AfterBatch(workers[k].is_last)]
              ELSE [workers[k] EXCEPT !.pc = "cells", !.row = 0, !.col = 0],
              parsers[workers[k].src], out.writer)
  /\ UNCHANGED <<inputs, front, dpc, result, prepState>>

\* the loop indices after the cell at (row, col), or (-1, -1) after the last one
NextIndex_colshort(order, row, col, nrows, ncols) ==
  IF order = "RowMajor"
  THEN IF col + 1 < ncols THEN <<row, col + 1>>
       ELSE IF row + 1 < nrows THEN <<row + 1, 0>> ELSE <<-1, -1>>
  ELSE IF row + 2 < nrows THEN <<row + 1, col>>
       ELSE IF col + 1 < ncols THEN <<0, col + 1>> ELSE <<-1, -1>>

NextIndex_swapped(order, row, col, nrows, ncols) ==
  IF order = "ColumnMajor"
  THEN IF col + 1 < ncols THEN <<row, col + 1>>
       ELSE IF row + 1 < nrows THEN <<row + 1, 0>> ELSE <<-1, -1>>
  ELSE IF row + 1 < nrows THEN <<row + 1, col>>
       ELSE IF col + 1 < ncols THEN <<0, col + 1>> ELSE <<-1, -1>>

NextIndex(order, row, col, nrows, ncols) ==
  IF order = "RowMajor"
  THEN IF col + 1 < ncols THEN <<row, col + 1>>
       ELSE IF row + 1 < nrows THEN <<row + 1, 0>> ELSE <<-1, -1>>
  ELSE IF row + 1 < nrows THEN <<row + 1, col>>
       ELSE IF col + 1 < ncols THEN <<0, col + 1>> ELSE <<-1, -1>>

\* the (row, col) pairs the loops of one batch go through, in order
RECURSIVE TraverseFrom(_, _, _, _)
TraverseFrom(order, at, nrows, ncols) ==
  IF at = <<-1, -1>> THEN <<>>
  ELSE <<at>> \o TraverseFrom(order, NextIndex(order, at[1], at[2], nrows, ncols),
                              nrows, ncols)

Traversal(order, nrows, ncols) ==
  IF nrows = 0 \/ ncols = 0 THEN <<>>
  ELSE TraverseFrom(order, <<0, 0>>, nrows, ncols)

\* TP::processor(src_ty, dst_ty) applied to (parser, writer): one produce,
\* the value conversion, one consume
process(src_ty, dst_ty, p, w) ==
  {IF pr.status = "ok"
   THEN LET c == consume(w, pr.cell, dst_ty) IN
        [status |-> c.status, parser |-> pr.parser, writer |-> c.writer]
   ELSE [status |-> pr.status, parser |-> pr.parser, writer |-> w]
     : pr \in produce(p, src_ty)}

\* f[col](&mut parser, &mut dst)? inside the two loops
MoveCell(k) ==
  /\ dpc = "running"
  /\ workers[k].pc = "cells"
  /\ LET wk == workers[k]
         col == wk.col IN
     \E out \in process(src_schema.types[col + 1], dst_schema.types[col + 1],
                        parsers[wk.src], writers[wk.dst]) :
       CASE out.status = "err" -> Leave(k, "failed", "produce")
         [] out.status = "panic" -> Leave(k, "panicked", "produce")
         [] OTHER ->
              LET nx == NextIndex(data_order, wk.row, wk.col,
                                  RowBound(wk.n), ColBound(writers[wk.dst])) IN
              Continue(k,
                IF nx = <<-1, -1>>
                THEN [wk EXCEPT !.pc = AfterBatch(wk.is_last), !.row = 0, !.col = 0]
                ELSE [wk EXCEPT !.row = nx[1], !.col = nx[2]],
                out.parser, out.writer)
  /\ UNCHANGED <<inputs, front, dpc, result, prepState>>

\* dst.finalize()?: finish the writer and hand its batches to the destination
Finalize(k) ==
  /\ dpc = "running"
  /\ workers[k].pc = "finalize"
  /\ \E out \in finish(writers[workers[k].dst]) :
       IF out.status = "ok"
       THEN /\ dst' = [dst EXCEPT !.data = @ \o
                         [i \in 1..Len(out.writer.data) |->
                            [writer |-> workers[k].dst,
                             columns |-> out.writer.data[i]]]]
            /\ Proceed(k, [workers[k] EXCEPT !.pc = "done"],
                       parsers[workers[k].src], out.writer)
            /\ finished' = Returned(k, "done")
       ELSE /\ Leave(k, "failed", "finalize")
            /\ UNCHANGED dst
  /\ UNCHANGED <<inputs, front, dpc, result, data_order, src, src_schema, dst_schema,
                 src_partitions, dst_partitions, calls>>

\* the value of try_for_each once every closure has returned or was never
\* started: a panic unwinds; of two errors the reducer keeps the left one
TryForEach_rightmost(ws) ==
  LET panicked == {k \in 1..Len(ws) : ws[k].pc = "panicked"}
      failed == {k \in 1..Len(ws) : ws[k].pc = "failed"} IN
  IF panicked # {} THEN Outcome("panic", 0)
  ELSE IF failed # {}
  THEN LET k == CHOOSE x \in failed : \A y \in failed : x >= y IN
       Outcome(ws[k].err, k)
  ELSE Outcome("Ok", 0)

TryForEach(ws) ==
  LET panicked == {k \in 1..Len(ws) : ws[k].pc = "panicked"}
      failed == {k \in 1..Len(ws) : ws[k].pc = "failed"} IN
  IF panicked # {} THEN Outcome("panic", 0)
  ELSE IF failed # {}
  THEN LET k == CHOOSE x \in failed : \A y \in failed : x <= y IN
       Outcome(ws[k].err, k)
  ELSE Outcome("Ok", 0)

\* .try_for_each(..)?; Ok(())
RunResult_discard(r) == Outcome("Ok", 0)

RunResult(r) == r

Join ==
  /\ dpc = "running"
  /\ \A k \in 1..Len(workers) : workers[k].pc \in Terminal
  /\ result' = RunResult(TryForEach(workers))
  /\ dpc' = "returned"
  /\ UNCHANGED <<inputs, front, prepState, runState>>

\* dispatcher.run()?; destination
ArrowOf_unchecked(r, d) == Yielded(r.value, TRUE, d)

ArrowOf(r, d) ==
  IF r.value = "Ok" THEN Yielded("Ok", TRUE, d)
  ELSE Yielded(r.value, FALSE, NoDestination)

GetArrowReturn ==
  /\ gpc = "run"
  /\ dpc = "returned"
  /\ arrow' = ArrowOf(result, dst)
  /\ gpc' = "returned"
  /\ UNCHANGED <<inputs, dpc, result, prepState, runState>>

Next ==
  \/ RewriteTlsArgs
  \/ NewSource
  \/ Coordinate
  \/ SetDataOrder
  \/ SetQueries
  \/ SetOriginQuery
  \/ FetchMetadata
  \/ ConvertSchema
  \/ Partition
  \/ SetMetadata
  \/ AllocatePartition
  \/ PrepareReturn
  \/ StartWriting
  \/ \E k \in 1..Len(workers) : OpenParser(k)
  \/ \E k \in 1..Len(workers) : SkipWorker(k)
  \/ \E k \in 1..Len(workers) : FetchNext(k)
  \/ \E k \in 1..Len(workers) : AquireRow(k)
  \/ \E k \in 1..Len(workers) : MoveCell(k)
  \/ \E k \in 1..Len(workers) : Finalize(k)
  \/ Join
  \/ GetArrowReturn

Spec == Init /\ [][Next]_vars

\* the steps of the closure try_for_each runs for pair k
WorkerStep(k) ==
  /\ k \in 1..Len(workers)
  /\ \/ OpenParser(k)
     \/ SkipWorker(k)
     \/ FetchNext(k)
     \/ AquireRow(k)
     \/ MoveCell(k)
     \/ Finalize(k)

\* run on a source whose parser may return any (n, is_last), two int4 columns
LiveInit ==
  /\ Init
  /\ entry = "run"
  /\ srcKind = "trait"
  /\ dbSchema = SchemaOf(<<<<"a", "int4">>, <<"a", "int4">>>>)
  /\ min_batch_size = 1

\* a closure the pool has started is run to its end by the thread that took it
LiveSpec ==
  /\ LiveInit
  /\ [][Next]_vars
  /\ \A k \in 1..MaxQueries : WF_vars(WorkerStep(k))

(***************************************************************************)
(* A partition parser under a caller that keeps to the PartitionParser     *)
(* contract only: it moves the cells of every batch it was told about and  *)
(* may call fetch_next again after the last batch was fetched.             *)
(***************************************************************************)
\* one fetch_next call as its caller saw it, and the stream position after it
FetchRecord(out) == [n |-> out.n, is_last |-> out.is_last, read |-> out.parser.read]

ParserInit ==
  /\ entry = "parser"
  /\ srcKind \in {"buffered", "simple"}
  /\ srcOrders = PostgresDataOrders
  /\ dstOrders = <<"RowMajor">>
  /\ queries = <<"q1">>
  /\ dbSchema \in RunSchemas
  /\ min_batch_size = 1
  /\ dpc = "parser"
  /\ data_order = "RowMajor"
  /\ src = [data_order |-> "RowMajor", queries |-> queries, origin_query |-> "set",
            schema |-> dbSchema]
  /\ dst = NoDestination
  /\ src_schema = dbSchema
  /\ dst_schema = EmptySchema
  /\ src_partitions = partition(src)
  /\ dst_partitions = <<>>
  /\ calls = <<>>
  /\ result = Outcome("pending", 0)
  /\ workers = <<[NewWorker(<<0, src_partitions[1]>>) EXCEPT !.pc = "fetch"]>>
  /\ \E m \in 0..MaxRows :
       /\ srcKind # "simple" => m = 0
       /\ parsers = <<NewParser(srcKind, "q1", dbSchema,
                                IF srcKind = "simple" THEN SimpleMessages(m)
                                ELSE <<>>)>>
  /\ writers = <<>>
  /\ finished = <<>>
  /\ gpc = "none"
  /\ arrow = Yielded("pending", FALSE, NoDestination)

\* parser.fetch_next()?, also after is_last was reported
ParserFetch ==
  /\ dpc = "parser"
  /\ workers[1].pc = "fetch"
  /\ parsers[1].fetches <= MaxFetches
  /\ \E out \in FetchNextOf(parsers[1]) :
       /\ parsers' = <<out.parser>>
       /\ CASE out.status = "ok" ->
                 /\ workers' = <<[workers[1] EXCEPT
                        !.pc = (IF out.n = 0 THEN "fetch" ELSE "cells"),
                        !.n = out.n, !.is_last = out.is_last, !.row = 0, !.col = 0]>>
                 /\ calls' = Append(calls, FetchRecord(out))
            [] out.status = "err" ->
                 /\ workers' = <<[workers[1] EXCEPT !.pc = "failed", !.err = "fetch_next"]>>
                 /\ UNCHANGED calls
            [] OTHER ->
                 /\ workers' = <<[workers[1] EXCEPT !.pc = "panicked", !.err = "fetch_next"]>>
                 /\ UNCHANGED calls
  /\ UNCHANGED <<inputs, front, dpc, result, data_order, src, dst, src_schema,
                 dst_schema, src_partitions, dst_partitions, writers, finished>>

\* parser.produce()? for the next cell of the batch, row by row
ParserProduce ==
  /\ dpc = "parser"
  /\ workers[1].pc = "cells"
  /\ LET wk == workers[1] IN
     \E out \in produce(parsers[1], src_schema.types[wk.col + 1]) :
       /\ parsers' = <<out.parser>>
       /\ CASE out.status = "err" ->
                 workers' = <<[wk EXCEPT !.pc = "failed", !.err = "produce"]>>
            [] out.status = "panic" ->
                 workers' = <<[wk EXCEPT !.pc = "panicked", !.err = "produce"]>>
            [] OTHER ->
                 LET nx == NextIndex("RowMajor", wk.row, wk.col, wk.n,
                                     parsers[1].ncols) IN
                 workers' = <<IF nx = <<-1, -1>>
                              THEN [wk EXCEPT !.pc = "fetch", !.row = 0, !.col = 0]
                              ELSE [wk EXCEPT !.row = nx[1], !.col = nx[2]]>>
  /\ UNCHANGED <<inputs, front, dpc, result, prepState, writers, finished>>

ParserNext ==
  \/ ParserFetch
  \/ ParserProduce

ParserSpec == ParserInit /\ [][ParserNext]_vars

(***************************************************************************)
(* A buffered parser under a caller that may ask for the next batch while  *)
(* rows of the last one are still in the buffer, as the documentation of   *)
(* PartitionParser::fetch_next allows; it asks between two rows only, which *)
(* is what the assertion at the head of fetch_batch demands.               *)
(***************************************************************************)
EarlyInit ==
  /\ ParserInit
  /\ srcKind = "buffered"

\* parser.fetch_next()? with rows of the current batch still to be read
ParserFetchEarly ==
  /\ dpc = "parser"
  /\ workers[1].pc = "cells"
  /\ workers[1].col = 0
  /\ parsers[1].fetches <= MaxFetches
  /\ \E out \in FetchNextOf(parsers[1]) :
       /\ parsers' = <<out.parser>>
       /\ CASE out.status = "ok" ->
                 /\ workers' = <<[workers[1] EXCEPT
                        !.pc = (IF out.n = 0 THEN "fetch" ELSE "cells"),
                        !.n = out.n, !.is_last = out.is_last, !.row = 0, !.col = 0]>>
                 /\ calls' = Append(calls, FetchRecord(out))
            [] out.status = "err" ->
                 /\ workers' = <<[workers[1] EXCEPT !.pc = "failed", !.err = "fetch_next"]>>
                 /\ UNCHANGED calls
            [] OTHER ->
                 /\ workers' = <<[workers[1] EXCEPT !.pc = "panicked", !.err = "fetch_next"]>>
                 /\ UNCHANGED calls
  /\ UNCHANGED <<inputs, front, dpc, result, data_order, src, dst, src_schema,
                 dst_schema, src_partitions, dst_partitions, writers, finished>>

EarlyNext ==
  \/ ParserFetch
  \/ ParserProduce
  \/ ParserFetchEarly

EarlySpec == EarlyInit /\ [][EarlyNext]_vars

(***************************************************************************)
(* Cell values: what the Produce implementations make of one raw cell and  *)
(* what ConsumeTy puts into the builder                                    *)
(***************************************************************************)
MaxCellRows == 2

\* the field texts the server is taken to send
Timestamp == "2024-01-02 03:04:05+00"

Texts == {"", "7", "t", "true", "\\x0a", "\\x0", Timestamp}

\* one field of a row: a text, or SQL NULL where the protocol has one (the
\* None of try_get); a CSV field is always a text and NULL arrives as ""
Raw(s) == [null |-> FALSE, text |-> s]

NullCell == [null |-> TRUE, text |-> ""]

RawCells(kind) == {Raw(s) : s \in Texts} \cup (IF kind = "csv" THEN {} ELSE {NullCell})

\* the value types T of Produce<T> and Produce<Option<T>>
BaseTypes == {"i32", "bool", "str", "bytes", "datetime"}

ValueType(base, optional) == [base |-> base, optional |-> optional]

\* what a produce call gives back
Value(v) == [status |-> "ok", kind |-> "none", is_none |-> FALSE, value |-> v]

NoneValue == [status |-> "ok", kind |-> "none", is_none |-> TRUE, value |-> ""]

Failure(kind) == [status |-> "err", kind |-> kind, is_none |-> FALSE, value |-> ""]

Abort == [status |-> "panic", kind |-> "panic", is_none |-> FALSE, value |-> ""]

\* the text the server sends for a value of each type: bool as t / f, bytea
\* as \x and hex digits, timestamptz with a two-digit offset
ServerText(base) ==
  CASE base = "i32" -> ("7" :> "7")
    [] base = "bool" -> ("true" :> "t")
    [] base = "str" -> [s \in Texts |-> s]
    [] base = "bytes" -> ("[10]" :> "\\x0a")
    [] base = "datetime" -> ("2024-01-02T03:04:05Z" :> Timestamp)

\* <i32 as FromStr>::from_str
FromStrI32 == ("7" :> "7")

\* <bool as FromStr>::from_str: "true" and "false" only
FromStrBool == ("true" :> "true") @@ ("false" :> "false")

\* the match of Produce<bool> for PostgresCSVStream: "t" and "f"
MatchBool == ("t" :> "true") @@ ("f" :> "false")

\* format!("{}:00", s) parsed as a timestamp with offset
FromStrDateTime == (Timestamp :> "2024-01-02T03:04:05Z")

\* &s[2..], defined for the texts of two bytes and more
SliceFrom2 ==
  ("true" :> "ue") @@ ("\\x0a" :> "0a") @@ ("\\x0" :> "0")
  @@ (Timestamp :> "24-01-02 03:04:05+00")

\* chars().next() twice, then the rest
SkipTwo(s) == IF s \in DOMAIN SliceFrom2 THEN SliceFrom2[s] ELSE ""

\* hex::decode
HexDecode == ("" :> "[]") @@ ("0a" :> "[10]")

\* s.parse().map_err(|_| cannot_produce::<T>(..))
ParseOr(table, s) ==
  IF s \in DOMAIN table THEN Value(table[s]) ELSE Failure("CannotProduce")

\* decode(..)?
DecodeOr(s) ==
  IF s \in DOMAIN HexDecode THEN Value(HexDecode[s]) ELSE Failure("FromHexError")

\* the Produce implementations of PostgresCSVStream on the field text s
csv_produce_nonnull(base, s) ==
  CASE base = "i32" -> ParseOr(FromStrI32, s)
    [] base = "bool" -> ParseOr(MatchBool, s)
    [] base = "datetime" -> ParseOr(FromStrDateTime, s)
    [] base = "str" -> Value(s)
    [] base = "bytes" -> IF s \in DOMAIN SliceFrom2 THEN DecodeOr(SliceFrom2[s])
                         ELSE Abort

csv_produce_text(ty, cell) ==
  IF ty.optional /\ cell.text = "" /\ ty.base # "str" THEN {NoneValue}
  ELSE {csv_produce_nonnull(ty.base, cell.text)}

csv_produce(ty, cell) ==
  IF ty.optional /\ cell.text = "" THEN {NoneValue}
  ELSE {csv_produce_nonnull(ty.base, cell.text)}

\* the Produce implementations of PostgresSimpleStream on Some(s)
simple_produce_some(base, s) ==
  CASE base = "i32" -> ParseOr(FromStrI32, s)
    [] base = "bool" -> ParseOr(FromStrBool, s)
    [] base = "str" -> Value(s)
    [] base = "bytes" -> DecodeOr(SkipTwo(s))
    [] base = "datetime" -> IF s \in DOMAIN FromStrDateTime
                            THEN Value(FromStrDateTime[s]) ELSE Abort

simple_produce(ty, cell) ==
  IF cell.null
  THEN IF ty.optional THEN {NoneValue} ELSE {Failure("anyhow")}
  ELSE {simple_produce_some(ty.base, cell.text)}

\* row.try_get(cidx)? of the binary parser: FromSql of the driver decides
binary_produce(ty, cell) ==
  IF cell.null
  THEN IF ty.optional THEN {NoneValue} ELSE {Failure("postgres::Error")}
  ELSE {Value(cell.text), Failure("postgres::Error")}

CellKinds == {"binary", "csv", "simple"}

\* the rows a parser of the three kinds reads cells from
CellBuffer(p) ==
  IF p.kind = "simple" THEN SubSeq(p.rows, 1, Len(p.rows) - 1) ELSE p.rowbuf

\* produce::<T>() of the parser p: next_loc, then the cell under the old cursor
produce_cell(p, ty) ==
  LET loc == next_loc(p)
      buf == CellBuffer(p) IN
  IF loc.ridx >= Len(buf)
  THEN {[out |-> Abort, parser |-> loc.parser]}
  ELSE {[out |-> o, parser |-> loc.parser] :
          o \in CASE p.kind = "csv" -> csv_produce(ty, buf[loc.ridx + 1][loc.cidx + 1])
                  [] p.kind = "simple" ->
                       simple_produce(ty, buf[loc.ridx + 1][loc.cidx + 1])
                  [] OTHER -> binary_produce(ty, buf[loc.ridx + 1][loc.cidx + 1])}

\* impl_consume_ty: the builder each native type is appended to
BuilderOf ==
  ("i32" :> "Int32") @@ ("bool" :> "Boolean") @@ ("str" :> "LargeUtf8")
  @@ ("bytes" :> "LargeBinary")

\* one slot of an array builder
Slot(valid, v) == [valid |-> valid, value |-> v]

\* append_value and append_option
append_value(out) == Slot(TRUE, out.value)

append_option_valid(out) == Slot(TRUE, out.value)

append_option(out) == IF out.is_none THEN Slot(FALSE, "") ELSE Slot(TRUE, out.value)

\* the conversion of a transport rule between a value type and the builder's
\* native type of the same kind: the value, or the None, as it is
convert_value(out) == out

\* ConsumeTy::consume and ConsumeTy::consume_opt
consume_ty(w, ty, out) ==
  consume(w, IF ty.optional THEN append_option(out) ELSE append_value(out),
          BuilderOf[ty.base])

\* one column of raw cells read by one parser and, where the value type has
\* a builder, written by one writer that was prepared for the batch
CellSchema(tag) == SchemaOf(<<<<"a", tag>>>>)

CellWorker(n) ==
  [NewWorker(<<1, [id |-> 1, query |-> "q1"]>>) EXCEPT !.pc = "produce", !.n = n]

CellInit ==
  /\ entry = "cells"
  /\ srcKind \in CellKinds
  /\ srcOrders = PostgresDataOrders
  /\ dstOrders = <<"RowMajor">>
  /\ queries = <<"q1">>
  /\ \E base \in BaseTypes, optional \in BOOLEAN :
       /\ dbSchema = [names |-> <<"a">>, types |-> <<ValueType(base, optional)>>]
       /\ dst_schema = (IF base \in DOMAIN BuilderOf THEN CellSchema(BuilderOf[base])
                        ELSE EmptySchema)
  /\ min_batch_size = 1
  /\ dpc = "cells"
  /\ data_order = "RowMajor"
  /\ src = [data_order |-> "RowMajor", queries |-> queries, origin_query |-> "set",
            schema |-> dbSchema]
  /\ dst = NoDestination
  /\ src_schema = dbSchema
  /\ src_partitions = <<[id |-> 1, query |-> "q1"]>>
  /\ dst_partitions = <<1>>
  /\ calls = <<>>
  /\ result = Outcome("pending", 0)
  /\ \E n \in 0..MaxCellRows :
       /\ workers = <<CellWorker(n)>>
       /\ \E table \in [1..n -> RawCells(srcKind)] :
            LET rows == [i \in 1..n |-> <<table[i]>>] IN
            parsers = <<IF srcKind = "simple"
                        THEN NewParser("simple", "q1", dbSchema,
                                       Append(rows, <<CommandComplete>>))
                        ELSE [NewParser(srcKind, "q1", dbSchema, <<>>)
                                EXCEPT !.rowbuf = rows]>>
       /\ \E out \in prepare_for_batch(NewWriter(dst_schema, min_batch_size), n) :
            writers = <<out.writer>>
  /\ finished = <<>>
  /\ gpc = "none"
  /\ arrow = Yielded("pending", FALSE, NoDestination)

\* the value type the transport asks the parser for
CellType == src_schema.types[1]

\* the worker's place after one cell has been dealt with
AfterCell(wk) ==
  IF wk.row + 1 < wk.n THEN [wk EXCEPT !.pc = "produce", !.row = @ + 1]
  ELSE [wk EXCEPT !.pc = (IF CellType.base \in DOMAIN BuilderOf THEN "finalize"
                          ELSE "done")]

\* parser.produce()? for the next cell of the batch
CellProduce ==
  /\ dpc = "cells"
  /\ workers[1].pc = "produce"
  /\ workers[1].row < workers[1].n
  /\ \E pr \in produce_cell(parsers[1], CellType) :
       /\ parsers' = <<pr.parser>>
       /\ calls' = Append(calls, pr.out)
       /\ workers' = <<CASE pr.out.status = "err" ->
                              [workers[1] EXCEPT !.pc = "failed", !.err = "produce"]
                         [] pr.out.status = "panic" ->
                              [workers[1] EXCEPT !.pc = "panicked", !.err = "produce"]
                         [] OTHER ->
                              IF CellType.base \in DOMAIN BuilderOf
                              THEN [workers[1] EXCEPT !.pc = "consume"]
                              ELSE AfterCell(workers[1])>>
  /\ UNCHANGED <<inputs, front, dpc, result, data_order, src, dst, src_schema,
                 dst_schema, src_partitions, dst_partitions, writers, finished>>

\* writer.consume(value) of the value just produced
CellConsume ==
  /\ dpc = "cells"
  /\ workers[1].pc = "consume"
  /\ LET c == consume_ty(writers[1], CellType, convert_value(calls[Len(calls)])) IN
       /\ writers' = <<c.writer>>
       /\ workers' = <<IF c.status = "ok" THEN AfterCell(workers[1])
                       ELSE [workers[1] EXCEPT !.pc = "panicked", !.err = "consume"]>>
  /\ UNCHANGED <<inputs, front, dpc, result, prepState, parsers, finished>>

\* dst.finalize()? after the last cell: the writer's batches are the result
CellFinalize ==
  /\ dpc = "cells"
  /\ workers[1].pc = "finalize"
  /\ \E f \in finish(writers[1]) :
       /\ writers' = <<f.writer>>
       /\ workers' = <<IF f.status = "ok" THEN [workers[1] EXCEPT !.pc = "done"]
                       ELSE [workers[1] EXCEPT !.pc = "failed", !.err = "finalize"]>>
  /\ UNCHANGED <<inputs, front, dpc, result, prepState, parsers, finished>>

CellNext ==
  \/ CellProduce
  \/ CellConsume
  \/ CellFinalize

CellSpec == CellInit /\ [][CellNext]_vars

(***************************************************************************)
(* Properties                                                              *)
(***************************************************************************)
Workers == 1..Len(workers)

\* the workers whose parser and writer exist
Live(k) == workers[k].pc \in {"fetch", "aquire", "cells", "finalize", "done"}

\* the workers that stand between two batches
AtBoundary(k) == workers[k].pc \in {"fetch", "finalize", "done"}

ParserOf(k) == parsers[workers[k].src]

WriterOf(k) == writers[workers[k].dst]

\* the cells of rows 1..nrows of a partition, row by row
CellsOfRows(query, nrows, ncols) ==
  [j \in 1..(nrows * ncols) |-> <<query, ((j - 1) \div ncols) + 1, (j - 1) % ncols>>]

\* C1: every cell of every batch a worker moves is produced exactly once and
\* consumed exactly once, and the k-th produce of a partition is paired with
\* the k-th consume of its writer: nothing skipped, duplicated or reordered.
C1_CellsMovedOnce ==
  \A k \in Workers :
    Live(k) =>
      LET p == ParserOf(k)
          w == WriterOf(k)
          all == CellsOfRows(p.query, SumSeq(p.delivered), p.ncols) IN
      /\ Len(w.consumed) = Len(p.produced)
      /\ \A j \in 1..Len(p.produced) : w.consumed[j][1] = p.produced[j]
      /\ Len(p.produced) <= Len(all)
      /\ p.produced = SubSeq(all, 1, Len(p.produced))
      /\ AtBoundary(k) => p.produced = all

C1_Witness ==
  \E k \in Workers :
    /\ workers[k].pc = "done"
    /\ Len(ParserOf(k).delivered) >= 2
    /\ Len(ParserOf(k).produced) >= 2 * MaxCols
    /\ Len(WriterOf(k).consumed) >= 2 * MaxCols

\* C2: fetch_next is invoked only on a row boundary: whenever a worker is about
\* to call it, the parser's and the writer's column cursors are both 0, and no
\* worker ever fails the parser's assertion, in either traversal order.
C2_FetchOnRowBoundary ==
  \A k \in Workers :
    /\ workers[k].pc = "fetch" =>
         /\ ParserOf(k).current_col = 0
         /\ WriterOf(k).receiver.next_col = 0
    /\ ~(workers[k].pc = "panicked" /\ workers[k].err = "fetch_next")

C2_Witness ==
  \E k \in Workers :
    /\ workers[k].pc = "fetch"
    /\ data_order = "ColumnMajor"
    /\ ParserOf(k).ncols >= 2
    /\ ParserOf(k).fetches >= 1
    /\ Len(ParserOf(k).produced) >= 2

Common == Range(srcOrders) \cap Range(dstOrders)

\* C3: negotiation yields the first element of the source's preference list
\* that also occurs in the destination's list, and fails with
\* UnsupportedDataOrder exactly when the lists have no common element.
C3_FirstCommonOrder ==
  dpc # "coordinate" =>
    /\ (result.value = "UnsupportedDataOrder") <=> (Common = {})
    /\ Common # {} =>
         \E i \in 1..Len(srcOrders) :
           /\ data_order = srcOrders[i]
           /\ srcOrders[i] \in Range(dstOrders)
           /\ \A j \in 1..(i - 1) : srcOrders[j] \notin Range(dstOrders)

C3_Witness ==
  /\ dpc # "coordinate"
  /\ srcOrders = <<"RowMajor", "ColumnMajor">>
  /\ dstOrders = <<"ColumnMajor", "RowMajor">>
  /\ data_order = "RowMajor"

\* C4: when negotiation fails, the method returns UnsupportedDataOrder before
\* any other step: no source or destination method was invoked and no
\* partition or writer exists.
C4_NothingBeforeNegotiation ==
  (dpc # "coordinate" /\ Common = {}) =>
    /\ result.value = "UnsupportedDataOrder"
    /\ dpc = "returned"
    /\ calls = <<>>
    /\ src.data_order = "none" /\ src.queries = <<>> /\ src.origin_query = "unset"
    /\ src.schema = EmptySchema
    /\ dst.schema = EmptySchema /\ dst.allocated = 0
    /\ src_partitions = <<>> /\ dst_partitions = <<>>
    /\ writers = <<>> /\ workers = <<>>

C4_Witness ==
  /\ result.value = "UnsupportedDataOrder"
  /\ entry = "run"
  /\ queries # <<>>

\* C5: the schema handed to destination.set_metadata has as many columns as
\* the source schema, the same names in the same positions, and as i-th tag
\* the Transport's conversion of the i-th source tag.
C5_SchemaConverted ==
  dst.data_order # "none" =>
    /\ Len(dst.schema.names) = Len(src.schema.names)
    /\ Len(dst.schema.types) = Len(src.schema.types)
    /\ \A i \in 1..Len(src.schema.names) :
         /\ dst.schema.names[i] = src.schema.names[i]
         /\ dst.schema.types[i] = convert_tag(src.schema.types[i])

C5_Witness ==
  /\ dst.data_order # "none"
  /\ Len(dst.schema.names) = 2
  /\ dst.schema.names = <<"b", "a">>
  /\ dst.schema.types = <<"LargeUtf8", "Int32">>

Prepared ==
  \/ dpc \in {"start_writing", "running"}
  \/ entry = "prepare" /\ result.value = "Ok"
  \/ entry = "run" /\ dpc = "returned" /\ workers # <<>>

\* C6: after every successful prepare the source partitions and the allocated
\* writers are both as many as the queries, zero queries included, so run
\* zips them without a length mismatch.
C6_OnePartitionPerQuery ==
  /\ Prepared =>
       /\ Len(src_partitions) = Len(queries)
       /\ Len(dst_partitions) = Len(queries)
       /\ dst.allocated = Len(queries)
  /\ dpc = "running" => Len(workers) = Len(queries)
  /\ (entry = "run" /\ result.value = "panic") => workers # <<>>

C6_Witness ==
  /\ entry = "prepare"
  /\ result.value = "Ok"
  /\ Len(queries) = MaxQueries
  /\ Len(src_partitions) = MaxQueries

Positions(name) == {i \in 1..Len(calls) : calls[i] = name}

Before(a, b) == \A i \in Positions(a), j \in Positions(b) : i < j

\* C7: in prepare, set_data_order, set_queries and set_origin_query precede the
\* single fetch_metadata; set_metadata is called once, after fetch_metadata
\* and the schema conversion and before the first allocate_partition.
C7_PrepareCallOrder ==
  /\ Cardinality(Positions("fetch_metadata")) <= 1
  /\ Positions("fetch_metadata") # {} =>
       \A c \in {"set_data_order", "set_queries", "set_origin_query"} :
         /\ Cardinality(Positions(c)) = 1
         /\ Before(c, "fetch_metadata")
  /\ Cardinality(Positions("set_metadata")) <= 1
  /\ Positions("set_metadata") # {} =>
       /\ Positions("fetch_metadata") # {} /\ Before("fetch_metadata", "set_metadata")
       /\ Positions("convert") # {} /\ Before("convert", "set_metadata")
  /\ Positions("allocate_partition") # {} =>
       /\ Cardinality(Positions("set_metadata")) = 1
       /\ Before("set_metadata", "allocate_partition")
  /\ (entry # "get_meta" /\ Prepared) => Cardinality(Positions("set_metadata")) = 1

C7_Witness ==
  /\ entry = "prepare"
  /\ result.value = "Ok"
  /\ Cardinality(Positions("allocate_partition")) = MaxQueries
  /\ Cardinality(Positions("set_metadata")) = 1

\* the rows of a record batch: the length of its columns
BatchRows(columns) == IF columns = <<>> THEN 0 ELSE Len(columns[1])

TotalRows(batches) == SumSeq([i \in 1..Len(batches) |-> BatchRows(batches[i].columns)])

DeliveredRows == SumSeq([k \in 1..Len(workers) |-> SumSeq(ParserOf(k).delivered)])

\* C8: when run returns Ok, the record batches of the destination hold as many
\* rows as the parsers delivered: the sum of the n of all fetch_next calls.
C8_RowCountPreserved ==
  (entry = "run" /\ result.value = "Ok") => TotalRows(dst.data) = DeliveredRows

C8_Witness ==
  /\ entry = "run"
  /\ result.value = "Ok"
  /\ Len(workers) = 2
  /\ Len(dst.data) >= 3
  /\ TotalRows(dst.data) >= 4

\* column c of everything writer w holds: its flushed batches, then its builders
ColumnOf(w, c) ==
  Concat([i \in 1..Len(w.data) |-> w.data[i][c]])
    \o (IF w.has_builders THEN w.builders[c] ELSE <<>>)

\* the batches the destination received from writer id, in the order received
ReceivedFrom(id) ==
  LET idx == {i \in 1..Len(dst.data) : dst.data[i].writer = id}
      F[i \in 0..Len(dst.data)] ==
        IF i = 0 THEN <<>>
        ELSE IF i \in idx THEN Append(F[i - 1], dst.data[i].columns) ELSE F[i - 1]
  IN F[Len(dst.data)]

\* C9: within a partition the rows appear in the writer's output, batches
\* taken in flush order, in the order the source stream delivered them.
C9_RowOrderPreserved ==
  \A k \in Workers :
    Live(k) =>
      LET w == WriterOf(k) IN
      /\ \A c \in 1..Len(w.schema.names) :
           \A j \in 1..Len(ColumnOf(w, c)) :
             ColumnOf(w, c)[j] = <<workers[k].query, j, c - 1>>
      /\ workers[k].pc = "done" => ReceivedFrom(workers[k].dst) = w.data

C9_Witness ==
  \E k \in Workers :
    /\ workers[k].pc = "done"
    /\ Len(WriterOf(k).data) >= 2
    /\ Len(ColumnOf(WriterOf(k), 1)) = MaxRows

\* C10: worker i works on src_partitions[i] and dst_partitions[i] only: no
\* parser and no writer is touched by two workers, and writer i receives
\* cells of partition i only.
C10_UniqueOwnership ==
  /\ \A k \in Workers :
       /\ workers[k].src = src_partitions[k].id
       /\ workers[k].query = queries[k]
       /\ workers[k].dst = dst_partitions[k]
  /\ \A i \in 1..Len(parsers) : parsers[i].touched \subseteq {i}
  /\ \A i \in 1..Len(writers) :
       /\ writers[i].touched \subseteq {i}
       /\ \A j \in 1..Len(writers[i].consumed) :
            writers[i].consumed[j][1][1] = queries[i]

C10_Witness ==
  /\ Len(workers) = 2
  /\ \A k \in Workers :
       /\ workers[k].pc = "cells"
       /\ parsers[k].touched = {k}
       /\ writers[k].touched = {k}
       /\ writers[k].consumed # <<>>

WorkerErrors == {"parser", "fetch_next", "aquire_row", "produce", "finalize"}

Failed == {k \in Workers : workers[k].pc = "failed"}

\* C11: run returns Ok only if every worker went through its whole loop and
\* its finalize without error; if the parser(), fetch_next, aquire_row, cell
\* transport or finalize of any worker returned an error, run returns an error.
C11_OkOnlyIfAllSucceed ==
  (entry = "run" /\ dpc = "returned") =>
    /\ result.value = "Ok" =>
         \A k \in Workers :
           /\ workers[k].pc = "done"
           /\ workers[k].err = "none"
           /\ workers[k].is_last
           /\ Len(ParserOf(k).produced) = SumSeq(ParserOf(k).delivered) * ParserOf(k).ncols
    /\ Failed # {} =>
         /\ result.value \in WorkerErrors
         /\ \E k \in Failed : result.value = workers[k].err

C11_Witness ==
  /\ entry = "run"
  /\ dpc = "returned"
  /\ result.value = "finalize"
  /\ \E k \in Workers : workers[k].pc = "done"
  /\ \E k \in Workers : workers[k].pc = "failed" /\ workers[k].err = "finalize"

\* C12: get_arrow hands an ArrowDestination to its caller only when run
\* returned Ok with every worker done; on an error before the dispatcher, in
\* prepare or in a worker it returns that error and no destination, so the
\* caller never sees a partially filled destination.
C12_NoPartialResult ==
  /\ gpc # "returned" => arrow = Yielded("pending", FALSE, NoDestination)
  /\ gpc = "returned" =>
       /\ arrow.has_destination <=> (arrow.value = "Ok")
       /\ arrow.has_destination =>
            /\ result.value = "Ok"
            /\ \A k \in Workers : workers[k].pc = "done"
            /\ arrow.destination = dst
            /\ TotalRows(arrow.destination.data) = DeliveredRows
       /\ ~arrow.has_destination =>
            /\ arrow.destination = NoDestination
            /\ arrow.value \notin {"Ok", "pending"}
            /\ dpc = "returned" => arrow.value = result.value

C12_Witness ==
  /\ gpc = "returned"
  /\ arrow.value = "produce"
  /\ ~arrow.has_destination
  /\ dst.data # <<>>
  /\ \E k \in Workers : workers[k].pc = "done"

IsFailure(e) == e.how = "failed"

\* the workers that returned an error, in the order they returned
FailedOrder == SelectSeq(finished, IsFailure)

\* C13 as stated: when workers fail, run returns the error of the worker
\* that failed earliest.
C13_EarliestErrorReturned ==
  (entry = "run" /\ dpc = "returned" /\ FailedOrder # <<>>) =>
    /\ result.worker = FailedOrder[1].worker
    /\ result.value = workers[FailedOrder[1].worker].err

\* C13 amended: when workers fail, run returns the error of one of them, the
\* failed worker lowest in partition order, whichever of them failed first.
C13_LowestFailedReturned ==
  (entry = "run" /\ dpc = "returned" /\ Failed # {}) =>
    /\ result.worker \in Failed
    /\ result.value = workers[result.worker].err
    /\ \A j \in Failed : result.worker <= j

C13_Witness ==
  /\ dpc = "returned"
  /\ Len(FailedOrder) = 2
  /\ FailedOrder[1].worker = 2
  /\ FailedOrder[2].worker = 1
  /\ workers[1].err = "produce"
  /\ workers[2].err = "fetch_next"
  /\ result = Outcome("produce", 1)

\* a closure that returned Ok after a closure had returned an error
DoneAfterFailure ==
  \E i, j \in 1..Len(finished) :
    i < j /\ finished[i].how = "failed" /\ finished[j].how = "done"

\* C14 as stated: once a worker has returned an error, a worker that is in
\* the middle of its partition calls fetch_next no more and does not finalize.
C14_StopsAtBatchBoundary ==
  /\ \A k \in Workers : ~workers[k].late
  /\ ~DoneAfterFailure

\* C14 amended: a peer's error stops no worker that has started: only a pair
\* whose closure was not called yet is skipped, and then a closure has
\* failed before; a started worker leaves its loop only through finalize or
\* through an error of its own, and run returns once all have.
C14_StartedWorkersRunOn ==
  /\ [](\A k \in Workers :
          workers[k].pc = "skipped" =>
            /\ Failed # {}
            /\ ParserOf(k).touched = {} /\ WriterOf(k).touched = {})
  /\ []((dpc = "returned" /\ workers # <<>>) =>
          \A k \in Workers : workers[k].pc \in Terminal)
  /\ [][\A k \in Workers :
          workers[k].pc \in {"fetch", "aquire", "cells", "finalize"} =>
            workers'[k].pc \in {"fetch", "aquire", "cells", "finalize", "done",
                                "failed", "panicked"}]_vars

C14_Witness ==
  /\ Len(workers) = 2
  /\ finished = <<[worker |-> 1, how |-> "failed"], [worker |-> 2, how |-> "done"]>>
  /\ workers[2].late
  /\ ParserOf(2).fetches >= 2

\* C15: once a fetch_next call of a binary, CSV, cursor or simple parser has
\* returned is_last = true and the rows it announced were consumed, every
\* later fetch_next call returns (0, true) and leaves the stream where it was.
C15_AfterLastZeroTrue ==
  /\ \A i, j \in 1..Len(calls) :
       (i < j /\ calls[i].is_last) =>
         /\ calls[j].n = 0
         /\ calls[j].is_last
         /\ calls[j].read = calls[i].read
  /\ \A k \in Workers :
       (workers[k].is_last /\ workers[k].err = "fetch_next") =>
         workers[k].pc # "panicked"

C15_Witness ==
  /\ srcKind = "simple"
  /\ Len(calls) >= 3
  /\ calls[1].is_last
  /\ calls[1].n = MaxRows
  /\ Len(parsers[1].produced) = MaxRows * parsers[1].ncols
  /\ calls[3].n = 0

\* C16 as stated: every fetch_next call of every parser returns n <=
\* DB_BUFFER_SIZE and no parser's row buffer holds more than DB_BUFFER_SIZE
\* rows.
C16_EveryBatchBounded ==
  \A i \in 1..Len(calls) :
    /\ calls[i].n <= DB_BUFFER_SIZE
    /\ Len(BufferOf(parsers[1])) <= DB_BUFFER_SIZE

\* C16 amended: the binary, CSV and cursor parsers return n <= DB_BUFFER_SIZE
\* from every fetch_next and never buffer more than DB_BUFFER_SIZE rows; the
\* simple parser holds the whole result and announces all of it at once.
C16_BufferedBatchBounded ==
  /\ srcKind = "buffered" =>
       /\ \A i \in 1..Len(calls) : calls[i].n <= DB_BUFFER_SIZE
       /\ Len(parsers[1].rowbuf) <= DB_BUFFER_SIZE
       /\ workers[1].n <= DB_BUFFER_SIZE
  /\ srcKind = "simple" =>
       /\ calls # <<>> => calls[1].n = Len(parsers[1].rows) - 1
       /\ \A i \in 2..Len(calls) : calls[i].n = 0

C16_Witness ==
  /\ srcKind = "buffered"
  /\ Len(calls) >= 2
  /\ calls[1].n = DB_BUFFER_SIZE
  /\ parsers[1].read > DB_BUFFER_SIZE
  /\ Len(parsers[1].rowbuf) >= 1

InLoop == {"fetch", "aquire", "cells"}

\* C17: a worker leaves its loop exactly when the rows of the batch whose
\* fetch_next returned is_last = true are moved; a fetch_next result (0, false)
\* moves no cell and is followed by another fetch_next; a worker whose parser
\* has reported is_last reaches finalize unless a call fails, and no worker
\* finalizes before is_last was reported.
C17_LoopExit ==
  /\ [](\A k \in Workers :
          /\ workers[k].pc \in {"finalize", "done"} =>
               /\ workers[k].is_last
               /\ ParserOf(k).fetches >= 1
               /\ Len(ParserOf(k).produced)
                    = SumSeq(ParserOf(k).delivered) * ParserOf(k).ncols
          /\ (workers[k].pc = "fetch" /\ ParserOf(k).fetches >= 1) =>
               ~workers[k].is_last)
  /\ [][\A k \in Workers :
          /\ (workers[k].pc = "aquire" /\ workers[k].n = 0 /\ ~workers[k].is_last) =>
               \/ workers'[k].pc = "aquire"
               \/ workers'[k].pc = "failed"
               \/ /\ workers'[k].pc = "fetch"
                  /\ parsers'[workers[k].src].produced = ParserOf(k).produced
                  /\ writers'[workers[k].dst].consumed = WriterOf(k).consumed
          /\ (workers[k].pc \in InLoop /\ workers'[k].pc = "finalize") =>
               /\ workers[k].is_last
               /\ workers[k].pc \in {"aquire", "cells"}]_vars
  /\ \A k \in 1..MaxQueries :
       (IF k \in Workers
        THEN workers[k].pc \in {"aquire", "cells"} /\ workers[k].is_last
        ELSE FALSE)
         ~> (IF k \in Workers
             THEN workers[k].pc \in {"finalize", "done", "failed", "panicked"}
             ELSE FALSE)

C17_Witness ==
  \E k \in Workers :
    /\ workers[k].pc = "done"
    /\ Len(ParserOf(k).delivered) >= 3
    /\ ParserOf(k).delivered[1] = 0
    /\ ParserOf(k).delivered[2] > 0
    /\ Len(ParserOf(k).produced) >= 2

\* worker k reads a PostgreSQL result set that turned out to have no rows
EmptyResult(k) ==
  /\ Live(k)
  /\ ParserOf(k).fetches >= 1
  /\ \/ ParserOf(k).kind = "buffered" /\ ParserOf(k).read = 0
     \/ ParserOf(k).kind = "simple" /\ Len(ParserOf(k).rows) = 1

\* C18: for an empty result set the first fetch_next returns (0, true), no
\* cell is produced or consumed, aquire_row and finalize do not fail, and the
\* writer hands over no batch at all (0 rows).
C18_EmptyResult ==
  /\ [](\A k \in Workers :
          EmptyResult(k) =>
            /\ ParserOf(k).delivered = <<0>>
            /\ workers[k].n = 0 /\ workers[k].is_last
            /\ ParserOf(k).produced = <<>>
            /\ WriterOf(k).consumed = <<>>
            /\ workers[k].pc \in {"aquire", "finalize", "done"}
            /\ ~WriterOf(k).has_builders
            /\ TotalRows([i \in 1..Len(WriterOf(k).data) |->
                            [columns |-> WriterOf(k).data[i]]]) = 0
            /\ WriterOf(k).data = <<>>
            /\ workers[k].pc = "done" => ReceivedFrom(workers[k].dst) = <<>>)
  /\ [][\A k \in Workers :
          EmptyResult(k) => workers'[k].pc \in {"aquire", "finalize", "done"}]_vars

C18_Witness ==
  /\ result.value = "Ok"
  /\ Len(workers) = 2
  /\ srcKind = "simple"
  /\ EmptyResult(1) /\ workers[1].pc = "done"
  /\ ~EmptyResult(2) /\ workers[2].pc = "done"
  /\ ReceivedFrom(workers[1].dst) = <<>>
  /\ ReceivedFrom(workers[2].dst) # <<>>

\* C19: with a single column the RowMajor loop and the ColumnMajor loop make
\* the same sequence of cell moves: the same (row, col) steps for a batch of
\* any size, and in a run of either order the produce and consume calls of a
\* partition are the cells of the delivered rows in order, all on column 0.
C19_SingleColumnSameMoves ==
  /\ \A n \in 0..MaxRows :
       Traversal("RowMajor", n, 1) = Traversal("ColumnMajor", n, 1)
  /\ \A k \in Workers :
       (Live(k) /\ ParserOf(k).ncols = 1) =>
         LET p == ParserOf(k)
             all == CellsOfRows(p.query, SumSeq(p.delivered), 1) IN
         /\ workers[k].col = 0
         /\ Len(p.produced) <= Len(all)
         /\ p.produced = SubSeq(all, 1, Len(p.produced))
         /\ AtBoundary(k) => p.produced = all
         /\ WriterOf(k).consumed = [j \in 1..Len(p.produced) |-> <<p.produced[j], 0>>]

C19_Witness ==
  \E k \in Workers :
    /\ data_order = "ColumnMajor"
    /\ ParserOf(k).ncols = 1
    /\ workers[k].pc = "done"
    /\ Len(ParserOf(k).delivered) >= 2
    /\ ParserOf(k).delivered[1] = DB_BUFFER_SIZE
    /\ Len(WriterOf(k).consumed) = MaxRows

\* the calls of prepare up to set_metadata, in order
StepsOneToSix ==
  <<"set_data_order", "set_queries", "set_origin_query", "fetch_metadata",
    "convert", "partition", "set_metadata">>

IsNotPartitioning(c) == c \notin {"partition", "allocate_partition"}

IsPrefix(s, t) == Len(s) <= Len(t) /\ s = SubSeq(t, 1, Len(s))

\* C20 as stated: get_meta makes the calls of prepare's steps 1 to 6,
\* source.partition() included, then stops without allocating.
C20_GetMetaStepsOneToSix ==
  (entry = "get_meta" /\ result.value = "Ok") =>
    /\ calls = StepsOneToSix
    /\ dst.allocated = 0

\* C20 amended: get_meta makes the calls of prepare's steps 1 to 4 and 6 in
\* prepare's order, never source.partition() and never allocate_partition,
\* and set_metadata receives the schema and the order prepare hands it for
\* the same inputs.
C20_GetMetaSkipsPartition ==
  /\ entry = "get_meta" =>
       /\ IsPrefix(calls, SelectSeq(StepsOneToSix, IsNotPartitioning))
       /\ src_partitions = <<>> /\ dst_partitions = <<>>
       /\ dst.allocated = 0 /\ writers = <<>>
       /\ result.value = "Ok" => calls = SelectSeq(StepsOneToSix, IsNotPartitioning)
  /\ (entry = "prepare" /\ result.value = "Ok") =>
       /\ IsPrefix(StepsOneToSix, calls)
       /\ SelectSeq(calls, IsNotPartitioning)
            = SelectSeq(StepsOneToSix, IsNotPartitioning)
  /\ (entry \in {"prepare", "get_meta"} /\ "set_metadata" \in Range(calls)
        /\ dst.data_order # "none") =>
       /\ dst.schema = ConvertedSchema(dbSchema).schema
       /\ dst.data_order = NegotiatedOrder(srcOrders, dstOrders)

C20_Witness ==
  /\ entry = "get_meta"
  /\ result.value = "Ok"
  /\ Len(queries) = MaxQueries
  /\ dst.schema.types = <<"Int32", "LargeUtf8">>
  /\ dst.data_order = "ColumnMajor"

(***************************************************************************)
(* Properties of the cell values                                           *)
(***************************************************************************)
\* the raw cell the i-th produce call of the column read
CellAt(i) == CellBuffer(parsers[1])[i][1]

\* SQL NULL as the parser meets it: CSV, an empty field; otherwise None
IsNull(cell) == IF srcKind = "csv" THEN cell.text = "" ELSE cell.null

\* C21: for every parser and every non-optional value type, a produce call
\* on a NULL cell returns the error UnexpectedNull and never a value
C21_NullIsUnexpectedNull ==
  \A i \in 1..Len(calls) :
    (~CellType.optional /\ IsNull(CellAt(i))) =>
      /\ calls[i].status = "err"
      /\ calls[i].kind = "UnexpectedNull"

\* C22: for every parser and value type, a produce call whose raw cell cannot
\* be decoded or parsed returns the error CannotProduce: it never aborts the
\* worker and never returns another error kind
C22_UndecodableIsCannotProduce ==
  \A i \in 1..Len(calls) :
    (~IsNull(CellAt(i)) /\ calls[i].status # "ok") =>
      /\ calls[i].status = "err"
      /\ calls[i].kind = "CannotProduce"

(***************************************************************************)
(* Properties of the cursors                                               *)
(***************************************************************************)
\* the newest cell a parser handed out
LastProduced(p) == p.produced[Len(p.produced)]

\* C23: each produce call reads the cell under the (row, col) cursor and
\* moves the cursor one cell on, column first: col becomes (col + 1) mod
\* ncols and row grows by one exactly when col wraps to 0; so col stays
\* within 0..ncols-1 and the cursor follows the loop indices of the batch,
\* one row further after every ncols calls
C23_CursorColumnFirst ==
  /\ [](parsers[1].current_col \in 0..(parsers[1].ncols - 1))
  /\ [](workers[1].pc = "cells" =>
          /\ parsers[1].current_row = workers[1].row
          /\ parsers[1].current_col = workers[1].col)
  /\ [][(workers[1].pc = "cells" /\ parsers' # parsers) =>
          LET p == parsers[1]
              q == parsers'[1] IN
          /\ q.current_col = (p.current_col + 1) % p.ncols
          /\ q.current_row = p.current_row + (IF q.current_col = 0 THEN 1 ELSE 0)
          /\ Len(q.produced) > Len(p.produced) =>
               LastProduced(q) = <<p.query, BufferOf(p)[p.current_row + 1],
                                   p.current_col>>]_vars

\* a parser of two columns in its second row, one cell into it
C23_Witness ==
  /\ workers[1].pc = "cells"
  /\ parsers[1].ncols = 2
  /\ parsers[1].current_row = 1
  /\ parsers[1].current_col = 1
  /\ Len(parsers[1].produced) = 3

\* the cells worker k has moved since its last fetch_next
MovedInBatch(k) ==
  IF workers[k].pc # "cells" THEN 0
  ELSE IF data_order = "RowMajor"
  THEN workers[k].row * ColBound(WriterOf(k)) + workers[k].col
  ELSE workers[k].col * RowBound(workers[k].n) + workers[k].row

\* C24: the Organizer of a writer stays in lock-step with the cursor of the
\* parser it is paired with (same ncols >= 1): after k cells moved since the
\* last fetch_next / prepare_for_batch the column the Organizer hands out
\* next is the parser's current column, k mod ncols, and next_col is always
\* within 0..ncols-1
C24_OrganizerLockStep ==
  \A k \in Workers :
    (Live(k) /\ ParserOf(k).ncols >= 1
       /\ WriterOf(k).receiver.col_count = ParserOf(k).ncols) =>
      LET p == ParserOf(k)
          o == WriterOf(k).receiver IN
      /\ o.next_col \in 0..(p.ncols - 1)
      /\ o.next_col = p.current_col
      /\ workers[k].pc = "cells" => o.next_col = MovedInBatch(k) % p.ncols
      /\ next_col_index(o).col = o.next_col

\* a ColumnMajor worker three cells into a batch of two rows and two columns
C24_Witness ==
  \E k \in Workers :
    /\ data_order = "ColumnMajor"
    /\ workers[k].pc = "cells"
    /\ ParserOf(k).ncols = 2
    /\ workers[k].n = 2
    /\ MovedInBatch(k) = 3
    /\ WriterOf(k).receiver.next_col = 1

(***************************************************************************)
(* Properties of the row writer                                            *)
(***************************************************************************)
\* the reserved rows and the incoming ones do not fit the builders
Overflows(w, n) == w.rows_reserved > 0 /\ w.rows_reserved + n > w.rows_capacity

\* the writer after a prepare_for_batch(n) that found room
Reserved(w, n) ==
  [w EXCEPT !.receiver = reset_for_batch(@, n), !.rows_reserved = @ + n]

\* C25 as stated: prepare_for_batch(n) appends a record batch to the
\* writer's data exactly when rows_reserved > 0 and rows_reserved + n exceeds
\* rows_capacity; when rows_reserved + n <= rows_capacity it appends nothing,
\* keeps the builders and only increases rows_reserved by n
C25_FlushExactlyOnOverflow ==
  \A k \in Workers :
    workers[k].pc = "aquire" =>
      LET w == WriterOf(k)
          n == workers[k].n IN
      \A out \in prepare_for_batch(w, n) :
        /\ (out.writer.data # w.data) <=> Overflows(w, n)
        /\ Overflows(w, n) => out.writer.data = Append(w.data, w.builders)
        /\ (w.rows_reserved + n <= w.rows_capacity) => out.writer = Reserved(w, n)

\* C25: a prepare_for_batch(n) that returns Ok has appended a record batch
\* exactly when rows_reserved > 0 and rows_reserved + n exceeds
\* rows_capacity; one whose flush fails returns the error, with nothing
\* appended and the builders gone; when rows_reserved + n <= rows_capacity
\* the call appends nothing, keeps the builders and only increases
\* rows_reserved by n
C25_FlushOnOverflowUnlessFailed ==
  \A k \in Workers :
    workers[k].pc = "aquire" =>
      LET w == WriterOf(k)
          n == workers[k].n IN
      \A out \in prepare_for_batch(w, n) :
        /\ out.status = "ok" =>
             /\ (out.writer.data # w.data) <=> Overflows(w, n)
             /\ Overflows(w, n) => out.writer.data = Append(w.data, w.builders)
        /\ out.status # "ok" =>
             /\ Overflows(w, n)
             /\ out.writer.data = w.data
             /\ ~out.writer.has_builders
        /\ (w.rows_reserved + n <= w.rows_capacity) =>
             /\ out.status = "ok"
             /\ out.writer = Reserved(w, n)

\* a writer whose third prepare_for_batch has just flushed the two rows it
\* had room for
C25_Witness ==
  \E k \in Workers :
    /\ workers[k].pc = "cells"
    /\ workers[k].row = 0
    /\ workers[k].col = 0
    /\ ParserOf(k).fetches = 3
    /\ WriterOf(k).min_batch_size = 2
    /\ Len(WriterOf(k).data) = 1
    /\ Len(WriterOf(k).data[1][1]) = 2
    /\ WriterOf(k).rows_reserved = workers[k].n

\* the produce calls of the column whose value has reached the writer
Consumed == Len(calls) - (IF workers[1].pc = "consume" THEN 1 ELSE 0)

\* C26: for a nullable column the positions of the NULLs are preserved end
\* to end: the destination column has a null exactly where the parser
\* produced None, and the produced value at every other position
C26_NullPositionsPreserved ==
  (CellType.optional /\ CellType.base \in DOMAIN BuilderOf
     /\ workers[1].pc \in {"produce", "consume", "finalize", "done"}) =>
    LET column == ColumnOf(writers[1], 1) IN
    /\ Len(column) = Consumed
    /\ workers[1].pc = "done" => Len(column) = workers[1].n
    /\ \A j \in 1..Len(column) :
         /\ ~column[j].valid <=> calls[j].is_none
         /\ column[j].valid => column[j].value = calls[j].value

\* a finished column of two rows: a None, then a value
C26_Witness ==
  /\ CellType.optional
  /\ workers[1].pc = "done"
  /\ Len(calls) = 2
  /\ calls[1].is_none
  /\ ~calls[2].is_none
  /\ writers[1].data = <<<<<<Slot(FALSE, ""), Slot(TRUE, calls[2].value)>>>>>>

(***************************************************************************)
(* Round trip through the simple protocol                                  *)
(***************************************************************************)
\* the values of the column's type that were written and came back as cell
WrittenAs(base, cell) == {v \in DOMAIN ServerText(base) : ServerText(base)[v] = cell.text}

\* the column of raw cells is what the server sends for a written column:
\* NULLs only in a nullable column, every other cell the text of a value
IsWrittenColumn ==
  \A i \in 1..workers[1].n :
    IF CellAt(i).null THEN CellType.optional
    ELSE WrittenAs(CellType.base, CellAt(i)) # {}

\* C27: every table content written to the database, the empty table
\* included, comes back through the simple protocol as the same rows in the
\* same order
C27_SimpleRoundTrip ==
  (srcKind = "simple" /\ IsWrittenColumn) =>
    /\ workers[1].err # "produce"
    /\ (workers[1].pc = "done" /\ CellType.base \in DOMAIN BuilderOf) =>
         LET column == ColumnOf(writers[1], 1) IN
         /\ Len(column) = workers[1].n
         /\ \A i \in 1..Len(column) :
              IF CellAt(i).null THEN ~column[i].valid
              ELSE /\ column[i].valid
                   /\ column[i].value \in WrittenAs(CellType.base, CellAt(i))

(***************************************************************************)
(* Properties of the worker loop                                           *)
(***************************************************************************)
\* the steps a worker may take from one place of its closure to the next
Protocol ==
  {<<"queued", "fetch">>, <<"queued", "failed">>, <<"queued", "skipped">>,
   <<"fetch", "aquire">>, <<"fetch", "failed">>, <<"fetch", "panicked">>,
   <<"aquire", "cells">>, <<"aquire", "fetch">>, <<"aquire", "finalize">>,
   <<"aquire", "failed">>,
   <<"cells", "cells">>, <<"cells", "fetch">>, <<"cells", "finalize">>,
   <<"cells", "failed">>, <<"cells", "panicked">>,
   <<"finalize", "done">>, <<"finalize", "failed">>}

\* the cells of all batches a parser has announced so far
CellsAnnounced(p) == p.ncols * SumSeq(p.delivered)

\* C28: each worker follows parser() ; (fetch_next ; aquire_row(n) ; exactly
\* n * ncols cell moves)* ; finalize: aquire_row comes once after every
\* fetch_next, with that call's n and before any cell of the batch is moved;
\* finalize comes once per partition, after the last cell of the last batch,
\* and only if no earlier step of the worker failed
C28_WorkerProtocol ==
  /\ [](\A k \in Workers :
          Cardinality({i \in 1..Len(finished) : finished[i].worker = k}) <= 1)
  /\ [][\A k \in Workers :
          (Len(workers') = Len(workers) /\ workers'[k] # workers[k]) =>
            LET a == workers[k]
                b == workers'[k]
                p == parsers'[a.src]
                w == writers'[a.dst] IN
            /\ <<a.pc, b.pc>> \in Protocol
            /\ (a.pc = "queued" /\ b.pc = "fetch") =>
                 /\ p.kind = srcKind
                 /\ p.fetches = 0
            /\ (a.pc = "fetch" /\ b.pc = "aquire") =>
                 /\ p.fetches = parsers[a.src].fetches + 1
                 /\ b.n = p.delivered[Len(p.delivered)]
            /\ (a.pc = "aquire" /\ b.pc # "failed") =>
                 /\ w.receiver.row_count = a.n
                 /\ Len(w.consumed) = CellsAnnounced(p) - a.n * p.ncols
                 /\ b.pc = "cells" <=> a.n * p.ncols > 0
            /\ (a.pc = "cells" /\ b.pc = "cells") =>
                 /\ Len(w.consumed) = Len(writers[a.dst].consumed) + 1
                 /\ Len(w.consumed) < CellsAnnounced(p)
            /\ (a.pc \in {"aquire", "cells"} /\ b.pc \in {"fetch", "finalize"}) =>
                 /\ Len(w.consumed) = CellsAnnounced(p)
                 /\ b.pc = "finalize" <=> a.is_last
            /\ b.pc = "finalize" => b.err = "none"
            /\ b.pc = "done" => Len(w.consumed) = CellsAnnounced(p)]_vars

\* a worker that has finalized after two batches of two columns
C28_Witness ==
  \E k \in Workers :
    /\ workers[k].pc = "done"
    /\ ParserOf(k).ncols = 2
    /\ Len(ParserOf(k).delivered) = 2
    /\ ParserOf(k).delivered[1] > 0
    /\ ParserOf(k).delivered[2] > 0
    /\ Len(WriterOf(k).consumed) = CellsAnnounced(ParserOf(k))

\* the (r, c) of the i-th cell move of a batch: r outer and c inner in
\* RowMajor, c outer and r inner in ColumnMajor
LoopOrder(order, n, ncols) ==
  [i \in 1..(n * ncols) |->
     IF order = "RowMajor" THEN <<(i - 1) \div ncols, (i - 1) % ncols>>
     ELSE <<(i - 1) % n, (i - 1) \div n>>]

\* the cells worker k has moved of the batch it is in
MovedOfBatch(k) ==
  Len(WriterOf(k).consumed)
    - (CellsAnnounced(ParserOf(k)) - workers[k].n * ParserOf(k).ncols)

\* C29: within a batch of n rows over ncols columns the RowMajor loop makes
\* its moves in the order (r, c), r outer and c inner, the ColumnMajor loop in
\* the order (c, r), c outer and r inner; the move at column c is made by
\* column c's transport function (the value is produced as the source type
\* and consumed as the destination type of column c), and both loops make
\* exactly n * ncols moves per batch
C29_LoopOrder ==
  /\ [](\A k \in Workers :
          workers[k].pc = "cells" =>
            LET n == workers[k].n
                ncols == ParserOf(k).ncols IN
            /\ MovedOfBatch(k) < n * ncols
            /\ <<workers[k].row, workers[k].col>>
                 = LoopOrder(data_order, n, ncols)[MovedOfBatch(k) + 1])
  /\ [][\A k \in Workers :
          (workers[k].pc = "cells" /\ workers'[k] # workers[k]
             /\ workers'[k].pc \in {"cells", "fetch", "finalize"}) =>
            LET a == workers[k]
                p == parsers'[a.src]
                w == writers'[a.dst]
                moved == w.consumed[Len(w.consumed)] IN
            /\ Len(w.consumed) = Len(writers[a.dst].consumed) + 1
            /\ moved[1] = p.produced[Len(p.produced)]
            /\ p.types[moved[1][3] + 1] = src_schema.types[a.col + 1]
            /\ w.schema.types[moved[2] + 1] = dst_schema.types[a.col + 1]
            /\ workers'[k].pc # "cells" =>
                 Len(w.consumed) = CellsAnnounced(p)]_vars

\* a ColumnMajor worker about to make the second move of a batch of two rows
\* and two columns: row 1 of column 0
C29_Witness ==
  \E k \in Workers :
    /\ data_order = "ColumnMajor"
    /\ workers[k].pc = "cells"
    /\ workers[k].n = 2
    /\ ParserOf(k).ncols = 2
    /\ MovedOfBatch(k) = 1
    /\ workers[k].row = 1
    /\ workers[k].col = 0

(***************************************************************************)
(* Properties of a failing prepare                                         *)
(***************************************************************************)
\* prepare has returned from the call named step, the last one it made
PrepareStoppedAt(step) ==
  /\ entry # "get_meta"
  /\ dpc = "returned"
  /\ calls # <<>>
  /\ calls[Len(calls)] = step

\* an allocate_partition call has failed: more calls than writers
AllocationFailed == Cardinality(Positions("allocate_partition")) > Len(dst_partitions)

\* C30: if prepare fails in fetch_metadata, in the schema conversion or in
\* source.partition(), the destination is untouched: neither set_metadata nor
\* allocate_partition was called on it; if allocate_partition fails for some
\* writer, prepare returns that error and hands out no writer
C30_FailedPrepare ==
  /\ \A step \in {"fetch_metadata", "convert", "partition"} :
       PrepareStoppedAt(step) =>
         /\ result.value \in {"SourceError", "NoConversionRule"}
         /\ Positions("set_metadata") = {}
         /\ Positions("allocate_partition") = {}
         /\ dst = NoDestination
         /\ writers = <<>>
  /\ (entry # "get_meta" /\ AllocationFailed) =>
       /\ dpc = "returned"
       /\ result.value = "DestinationError"
       /\ workers = <<>>
       /\ ~arrow.has_destination

\* prepare for two queries has returned the error of source.partition()
C30_Witness ==
  /\ entry = "prepare"
  /\ Len(queries) = 2
  /\ PrepareStoppedAt("partition")
  /\ result.value = "SourceError"
  /\ dst_schema # EmptySchema

(***************************************************************************)
(* Properties of the simple-query parser under the dispatcher              *)
(***************************************************************************)
\* the Row messages of a simple parser: all but the closing CommandComplete
RowMessages(p) == Len(p.rows) - 1

\* C31: on a message list of k Row messages and one closing CommandComplete,
\* the workers of a run never call produce on the CommandComplete message:
\* fetch_next announces the k rows once and 0 rows in any later call, every
\* produced cell comes from a Row message, the cursor stops on the
\* CommandComplete message without reading it, and no produce call panics.
C31_NoProduceOnCommandComplete ==
  (dpc = "running" /\ srcKind = "simple") =>
    \A k \in Workers :
      /\ ~(workers[k].pc = "panicked" /\ workers[k].err = "produce")
      /\ Live(k) =>
           LET p == ParserOf(k) IN
           /\ \A i \in 1..Len(p.delivered) :
                p.delivered[i] = (IF i = 1 THEN RowMessages(p) ELSE 0)
           /\ \A i \in 1..Len(p.produced) :
                /\ p.produced[i][2] # CommandComplete
                /\ p.produced[i][2] \in 1..RowMessages(p)
           /\ p.current_row <= RowMessages(p)
           /\ Len(p.produced) <= RowMessages(p) * p.ncols

C31_Witness ==
  /\ dpc = "running"
  /\ srcKind = "simple"
  /\ \E k \in Workers :
       /\ workers[k].pc = "done"
       /\ RowMessages(ParserOf(k)) = MaxRows
       /\ ParserOf(k).delivered = <<MaxRows>>
       /\ Len(ParserOf(k).produced) = MaxRows * ParserOf(k).ncols
       /\ ParserOf(k).current_row = MaxRows
       /\ ParserOf(k).rows[ParserOf(k).current_row + 1] = CommandComplete

(***************************************************************************)
(* Properties of a buffered parser asked early                             *)
(***************************************************************************)
\* the step is one fetch_next call of the parser
IsFetchNext ==
  \/ parsers'[1].fetches = parsers[1].fetches + 1
  \/ workers[1].err = "none" /\ workers'[1].err = "fetch_next"

\* the buffered rows no produce call has started on
Remaining(p) == Len(p.rowbuf) - p.current_row

\* C32: a fetch_next call of a buffered parser that is not finished and has
\* unconsumed rows in its buffer returns the number of those rows and leaves
\* the buffer, the row/column cursor and the stream position as they were;
\* the buffer is emptied and refilled, and the stream read, only by a
\* fetch_next call that finds every buffered row consumed.
C32_UnconsumedRowsKept ==
  [][LET p == parsers[1]
         q == parsers'[1] IN
     /\ (IsFetchNext /\ ~p.is_finished /\ Remaining(p) > 0) =>
          /\ workers'[1].pc = "cells"
          /\ workers'[1].n = Remaining(p)
          /\ workers'[1].is_last = p.is_finished
          /\ calls' = Append(calls, [n |-> Remaining(p), is_last |-> FALSE,
                                     read |-> p.read])
          /\ q.rowbuf = p.rowbuf
          /\ q.current_row = p.current_row
          /\ q.current_col = p.current_col
          /\ q.read = p.read
          /\ q.is_finished = p.is_finished
     /\ (q.rowbuf # p.rowbuf \/ q.read # p.read) =>
          /\ IsFetchNext
          /\ ~p.is_finished
          /\ Remaining(p) = 0
          /\ p.current_col = 0
    ]_vars

C32_Witness ==
  /\ srcKind = "buffered"
  /\ Len(calls) >= 2
  /\ calls[1].n = DB_BUFFER_SIZE
  /\ ~calls[1].is_last
  /\ calls[2].n = DB_BUFFER_SIZE - 1
  /\ calls[2].read = calls[1].read
  /\ ~calls[2].is_last
  /\ Len(parsers[1].rowbuf) = DB_BUFFER_SIZE
  /\ parsers[1].current_row >= 1
  /\ Len(parsers[1].produced) >= parsers[1].ncols

(***************************************************************************)
(* Properties of the CSV parser's optional values                          *)
(***************************************************************************)
\* C33: in the CSV parser every optional produce reads an empty field as
\* NULL, whatever the value type: the result is None, an optional text
\* column never yields Some(""), and the cursor has moved one cell on.
C33_CsvEmptyIsNone ==
  (srcKind = "csv" /\ CellType.optional) =>
    /\ \A i \in 1..Len(calls) :
         /\ CellAt(i).text = "" => calls[i] = NoneValue
         /\ calls[i] # Value("")
         /\ calls[i].is_none => CellAt(i).text = ""
    /\ parsers[1].current_row = Len(calls)
    /\ parsers[1].current_col = 0

\* an optional text column: an empty field read as None, then a text
C33_Witness ==
  /\ srcKind = "csv"
  /\ CellType = ValueType("str", TRUE)
  /\ Len(calls) = 2
  /\ CellAt(1).text = ""
  /\ calls[1] = NoneValue
  /\ calls[2] = Value("7")
  /\ parsers[1].current_row = 2

(***************************************************************************)
(* Properties of the buffer indices                                        *)
(***************************************************************************)
\* C34: in a run over a buffered parser every produce call reads a row index
\* smaller than the number of buffered rows and a column index smaller than
\* ncols, and rowbuf.len() - current_row in fetch_next never underflows: no
\* produce and no fetch_next call panics, a worker about to produce has its
\* cursor inside the buffer, and a worker about to fetch has it on a row
\* boundary at or before the end of the buffer.
C34_IndicesInBounds ==
  (dpc = "running" /\ srcKind = "buffered") =>
    \A k \in Workers :
      /\ workers[k].pc # "panicked"
      /\ Live(k) =>
           LET p == ParserOf(k) IN
           /\ p.current_row <= Len(p.rowbuf)
           /\ p.current_col < p.ncols
           /\ workers[k].pc = "cells" => p.current_row < Len(p.rowbuf)
           /\ workers[k].pc = "fetch" =>
                /\ p.current_col = 0
                /\ Len(p.rowbuf) - p.current_row >= 0
           /\ \A i \in 1..Len(p.produced) :
                /\ p.produced[i][2] \in 1..p.read
                /\ p.produced[i][3] \in 0..(p.ncols - 1)

\* the last cell of the second buffer is about to be read
C34_Witness ==
  /\ dpc = "running"
  /\ srcKind = "buffered"
  /\ \E k \in Workers :
       /\ workers[k].pc = "cells"
       /\ ParserOf(k).fetches = 2
       /\ ParserOf(k).ncols = MaxCols
       /\ ParserOf(k).current_row = Len(ParserOf(k).rowbuf) - 1
       /\ ParserOf(k).current_col = ParserOf(k).ncols - 1
       /\ ParserOf(k).read > DB_BUFFER_SIZE

(***************************************************************************)
(* Properties of the writer's content                                      *)
(***************************************************************************)
\* the values writer w consumed for column c, in the order it consumed them
ConsumedOf(w, c) ==
  LET s == SelectSeq(w.consumed, LAMBDA x : x[2] = c - 1) IN
  [i \in 1..Len(s) |-> s[i][1]]

\* the step takes the filled builders of writer w away or replaces them
BuildersGone(w, v) ==
  /\ w.has_builders
  /\ w.builders # EmptyBuilders(w.schema)
  /\ ~v.has_builders \/ v.builders = EmptyBuilders(v.schema)

\* the number of batches of w that hold the value x
BatchesWith(w, x) ==
  Cardinality({i \in 1..Len(w.data) :
                 \E c \in 1..Len(w.data[i]) : x \in Range(w.data[i][c])})

\* C35: the writer loses no value. While reservations are followed by that
\* many full rows, the flushed batches and the builders together hold, column
\* by column and in order, every value consumed so far; builders are taken
\* or replaced only in a step that appends their content to data; and after
\* finish every consumed value is in exactly one record batch.
C35_NoValueLost ==
  /\ [](dpc = "running" =>
          \A k \in Workers :
            Live(k) =>
              LET w == WriterOf(k) IN
              /\ \A c \in 1..Len(w.schema.names) : ColumnOf(w, c) = ConsumedOf(w, c)
              /\ workers[k].pc = "done" =>
                   /\ ~w.has_builders
                   /\ \A i \in 1..Len(w.consumed) : BatchesWith(w, w.consumed[i][1]) = 1)
  /\ [][\A k \in Workers :
          (dpc = "running" /\ Live(k) /\ Live(k)'
             /\ BuildersGone(WriterOf(k), WriterOf(k)')) =>
            WriterOf(k)'.data = Append(WriterOf(k).data, WriterOf(k).builders)]_vars

\* a finished writer whose first batch was flushed by a reservation
C35_Witness ==
  /\ dpc = "running"
  /\ \E k \in Workers :
       /\ workers[k].pc = "done"
       /\ Len(WriterOf(k).data) = 2
       /\ WriterOf(k).min_batch_size = 1
       /\ Len(WriterOf(k).consumed) = MaxRows * MaxCols
       /\ Len(WriterOf(k).data[1][1]) = DB_BUFFER_SIZE

(***************************************************************************)
(* Properties of the emitted batches                                       *)
(***************************************************************************)
\* C36: in a run the writer never emits a record batch of zero rows:
\* builders exist only while rows_reserved > 0, and every batch a flush
\* pushes, from a reservation or from finish, holds exactly the rows
\* reserved since the flush before it, at least one.
C36_NoEmptyBatch ==
  /\ [](dpc \in {"running", "returned"} =>
          /\ \A i \in 1..Len(dst.data) : BatchRows(dst.data[i].columns) >= 1
          /\ \A k \in Workers :
               LET w == WriterOf(k) IN
               /\ w.has_builders => w.rows_reserved > 0
               /\ \A i \in 1..Len(w.data) :
                    \A c \in 1..Len(w.data[i]) : Len(w.data[i][c]) >= 1)
  /\ [][\A k \in Workers :
          LET w == WriterOf(k)
              v == WriterOf(k)' IN
          (dpc = "running" /\ Len(v.data) > Len(w.data)) =>
            /\ Len(v.data) = Len(w.data) + 1
            /\ workers[k].pc \in {"aquire", "finalize"}
            /\ w.has_builders
            /\ BatchRows(v.data[Len(v.data)]) = w.rows_reserved
            /\ w.rows_reserved >= 1]_vars

\* two reservations share the first batch, a third one flushes it and
\* finish pushes the second
C36_Witness ==
  /\ dpc = "running"
  /\ \E k \in Workers :
       /\ workers[k].pc = "done"
       /\ WriterOf(k).min_batch_size = MaxMinBatch
       /\ ParserOf(k).delivered = <<1, 1, 1>>
       /\ Len(WriterOf(k).data) = 2
       /\ BatchRows(WriterOf(k).data[1]) = 2
       /\ BatchRows(WriterOf(k).data[2]) = 1

(***************************************************************************)
(* Determinism of the per-partition output                                 *)
(***************************************************************************)
\* the outcome of a writer call that succeeded
Succeeded(outs) == (CHOOSE o \in outs : o.status = "ok").writer

\* writer w after cells j .. n * ncols of a batch of n rows were consumed,
\* the rows of the batch being rows before+1 .. before+n of the stream
RECURSIVE SoloBatch(_, _, _, _, _)
SoloBatch(w, query, before, j, n) ==
  LET ncols == w.receiver.col_count IN
  IF j > n * ncols THEN w
  ELSE LET col == (j - 1) % ncols
           cell == <<query, before + ((j - 1) \div ncols) + 1, col>> IN
       SoloBatch(consume(w, cell, w.schema.types[col + 1]).writer,
                 query, before, j + 1, n)

\* writer w after one worker, alone, moved the batches of the stream whose
\* sizes are delivered, before finish
RECURSIVE SoloRun(_, _, _, _)
SoloRun(w, query, before, delivered) ==
  IF delivered = <<>> THEN w
  ELSE LET n == Head(delivered)
           a == Succeeded(prepare_for_batch(w, n)) IN
       SoloRun(SoloBatch(a, query, before, 1, n), query, before + n,
               Tail(delivered))

\* what partition i's stream alone determines: the query and the batches
Alone(i) == SoloRun(NewWriter(dst_schema, min_batch_size), queries[i], 0,
                    parsers[i].delivered)

\* C37: the cells written to writer i, and the batches it produces, are a
\* function of the content of partition i's stream alone: in every state of
\* every interleaving they are those of a worker that moves the same stream
\* with no other worker running.
C37_SameOutputInEveryInterleaving ==
  (dpc \in {"running", "returned"} /\ entry = "run") =>
    \A i \in Workers :
      Live(i) =>
        /\ workers[i].dst = i
        /\ workers[i].src = i
        /\ IsPrefix(writers[i].consumed, Alone(i).consumed)
        /\ workers[i].pc \in {"fetch", "finalize"} =>
             /\ writers[i].consumed = Alone(i).consumed
             /\ writers[i].data = Alone(i).data
             /\ writers[i].builders = Alone(i).builders
        /\ workers[i].pc = "done" =>
             /\ writers[i].consumed = Alone(i).consumed
             /\ writers[i].data = Succeeded(finish(Alone(i))).data
             /\ ReceivedFrom(i) = Succeeded(finish(Alone(i))).data

\* two workers have finished, the second before the first, and both wrote
\* batches
C37_Witness ==
  /\ dpc = "running"
  /\ Len(workers) = 2
  /\ workers[1].pc = "done"
  /\ workers[2].pc = "done"
  /\ finished[1].worker = 2
  /\ finished[2].worker = 1
  /\ Len(writers[1].data) >= 2
  /\ Len(writers[2].data) >= 1
  /\ dst.data[1].writer = 2

(***************************************************************************)
(* Properties of a failing produce                                         *)
(***************************************************************************)
\* the (row, col) cursor of parser p
Cursor(p) == <<p.current_row, p.current_col>>

\* C38: a produce call that fails on its cell has moved the cursor by exactly
\* one cell all the same: after every produce call, whether it returned a
\* value or an error, the cursor is where next_loc puts it.
C38_FailedProduceAdvances ==
  [][(workers[1].pc = "cells" /\ workers'[1] # workers[1]) =>
       /\ Cursor(parsers'[1]) = Cursor(next_loc(parsers[1]).parser)
       /\ Cursor(parsers'[1]) # Cursor(parsers[1])
       /\ workers'[1].pc = "failed" =>
            /\ workers'[1].err = "produce"
            /\ parsers'[1].produced = parsers[1].produced]_vars

\* the call on the second cell of the first row of two columns failed: the
\* cursor stands on the second row
C38_Witness ==
  /\ workers[1].pc = "failed"
  /\ workers[1].err = "produce"
  /\ parsers[1].ncols = 2
  /\ Len(parsers[1].produced) = 1
  /\ Cursor(parsers[1]) = <<1, 0>>

(***************************************************************************)
(* Properties of the reservation counters                                  *)
(***************************************************************************)
Max(a, b) == IF a >= b THEN a ELSE b

\* the step gives writer w, now v, freshly made builders
Allocated(w, v) ==
  /\ v.has_builders
  /\ v.builders = EmptyBuilders(v.schema)
  /\ ~w.has_builders \/ v.builders # w.builders

\* C39: in every state of every writer rows_reserved <= rows_capacity, and
\* a prepare_for_batch(n) that allocates new builders leaves rows_capacity =
\* max(n, min_batch_size) and rows_reserved = n; the capacity changes in no
\* other step.
C39_ReservedWithinCapacity ==
  /\ [](\A i \in 1..Len(writers) : writers[i].rows_reserved <= writers[i].rows_capacity)
  /\ [][\A k \in Workers :
          LET w == WriterOf(k)
              v == WriterOf(k)' IN
          dpc = "running" =>
            /\ Allocated(w, v) =>
                 /\ workers[k].pc = "aquire"
                 /\ v.rows_capacity = Max(workers[k].n, v.min_batch_size)
                 /\ v.rows_reserved = workers[k].n
                 /\ workers[k].n >= 1
            /\ (v.rows_capacity # w.rows_capacity /\ Live(k)') => Allocated(w, v)]_vars

\* a reservation of one row has flushed the first batch and allocated
\* builders of min_batch_size rows
C39_Witness ==
  /\ dpc = "running"
  /\ \E k \in Workers :
       /\ workers[k].pc = "cells"
       /\ workers[k].n = 1
       /\ Len(WriterOf(k).data) = 1
       /\ WriterOf(k).builders = EmptyBuilders(WriterOf(k).schema)
       /\ WriterOf(k).has_builders
       /\ WriterOf(k).min_batch_size = MaxMinBatch
       /\ WriterOf(k).rows_reserved = 1
       /\ WriterOf(k).rows_capacity = MaxMinBatch

====
